---- MODULE Spec2Model ----
(***************************************************************************)
(* Web-Monitor: the monitor scheduler (services/scheduler.py), the control *)
(* handlers that drive it (api/handlers/monitor_handler.py,                *)
(* api/handlers/space_handler.py), the store operations they use           *)
(* (infrastructure/database) and the notification decision                 *)
(* (services/email_service.py).                                            *)
(*                                                                         *)
(* Threads: the control-server workers (daemon.py thread pool) execute the *)
(* handlers; one tick-loop thread executes schedule.run_pending().  Every  *)
(* store call is one atomic step (one session, one commit); everything a   *)
(* thread does between two store calls or lock operations is folded into   *)
(* the step that follows.                                                  *)
(***************************************************************************)
EXTENDS Integers, Sequences, FiniteSets, TLC

\* ---------------------------------------------------------------- bounds
MaxTime == 2
MaxProbes == 4
MaxJobs == 2
MaxRequests == 2
MaxNotifySteps == 4
\* data_cleanup runs, and results saved by probes while the retention engine
\* is observed
MaxRuns == 2
MaxInserts == 1
\* control connections accepted
MaxConns == 2

\* ------------------------------------------------------------- constants
MonitorIds == {"m1", "m2"}
SpaceIds == {"s1", "s2"}
ControlThreads == {"c1", "c2"}
TickThread == "tick"
Threads == ControlThreads \cup {TickThread}
Intervals == {1, 2}
\* the check_interval_seconds an update_monitor request asks for
UpdateIntervals == {2}

HEALTHY == "healthy"
UNHEALTHY == "unhealthy"
UNKNOWN == "unknown"
OFFLINE == "offline"
MonitorStatus == {HEALTHY, UNHEALTHY, UNKNOWN, OFFLINE}
\* the statuses check_url / check_db can return
ProbeStatus == {HEALTHY, UNHEALTHY}

\* monitor names, space names and monitor types
Names == {"a", "b"}
NoName == "-"
URL == "url"
DATABASE == "database"
MonitorTypes == {URL, DATABASE}

NoTime == -1
NoJob == 0
NoStatus == "null"
NoMonitor == "none"
LockFree == "free"
\* an optional argument that is not given (None)
NoFilter == "any"

\* notification_emails of each space, and the fields a monitor is created with
notification_emails(s) == IF s = "s1" THEN {"ops@x"} ELSE {}
InitialInterval(m) == 1
InitialSpace(m) == IF m = "m1" THEN "s1" ELSE "s2"
InitialName(m) == IF m = "m1" THEN "a" ELSE "b"
TypeOf(m) == IF m = "m1" THEN URL ELSE DATABASE

VARIABLES
    now,               \* wall clock, in ticks of the 1 s tick loop
    monitors,          \* store: monitor rows by id
    results,           \* store: result rows in insertion order
    nresults,          \* number of MonitorResult objects created so far
    notified,          \* timestamps of the results a per-check email was sent for
    objs,              \* in-memory monitor objects handed to schedule.every().do()
    jobs,              \* schedule's job list: job -> next_run
    running_monitors,  \* scheduler.running_monitors: monitor id -> job
    monitor_lock,      \* scheduler.monitor_lock
    th,                \* per-thread position and locals
    last,              \* the most recent return of a control request
    nrequests,         \* number of control requests and restarts so far
    nsPrev, nsNew, nsOut, nsPhase, nsSteps,  \* should_send_notification harness
    spaces,            \* store: space rows by id
    listing,           \* the arguments and the result of the last list_running_monitors
    table,             \* store: number of result rows by status and timestamp (days)
    cfg,               \* the data_cleanup section of the configuration
    cleanup,           \* the data_cleanup job: position, locals, counters, last return
    preview,           \* the last answer of the get_cleanup_preview command
    conns,             \* control connections: position of _handle_connection, I/O done
    daemon,            \* WebMonitorDaemon: running flag, files, accept loop, signal handler
    mail,              \* email configuration (both sources), SMTP server, health_alerts section
    outbox,            \* the digests handed to send_notification_email, in order
    alert,             \* the health_alert job object: its counters
    runs,              \* the runs of health_alert: position and locals of each
    attempted,         \* timestamps of the results send_monitor_result_email was called for
    probe              \* the probe engine at work: its monitor, position, locals and result

vars == <<now, monitors, results, nresults, notified, objs, jobs,
          running_monitors, monitor_lock, th, last, nrequests,
          nsPrev, nsNew, nsOut, nsPhase, nsSteps, spaces, listing,
          table, cfg, cleanup, preview, conns, daemon,
          mail, outbox, alert, runs, attempted, probe>>

schedVars == <<now, monitors, results, nresults, notified, objs, jobs,
               running_monitors, monitor_lock, th, last, nrequests>>
nsVars == <<nsPrev, nsNew, nsOut, nsPhase, nsSteps>>
catVars == <<spaces>>
listVars == <<listing>>
retVars == <<table, cfg, cleanup, preview>>
srvVars == <<conns, daemon>>
alertVars == <<mail, outbox, alert, runs>>
engineVars == <<probe>>
extVars == <<catVars, listVars, retVars, srvVars, alertVars, attempted, engineVars>>

\* ------------------------------------------------------------- helpers
NoObj == [id |-> NoMonitor, status |-> OFFLINE, lc |-> NoTime, lh |-> NoTime,
          interval |-> 1, name |-> NoName, space |-> "none"]
NoRes == [mid |-> NoMonitor, status |-> NoStatus, ts |-> 0]

IdleThread == [pc |-> "idle", op |-> "none", m |-> NoMonitor, local |-> NoObj,
               tmp |-> NoObj, arg |-> 1, jid |-> NoJob, res |-> NoRes,
               prev |-> NoStatus, wasRunning |-> FALSE, todo |-> <<>>,
               pending |-> <<>>, start |-> NoTime, runs |-> 0, batch |-> <<>>,
               newName |-> NoName]

\* what the most recent control request returned: the operation, its target
\* and the value returned by the scheduler call
NoReturn == [op |-> "none", m |-> NoMonitor, ret |-> "none"]
Return(r, v) == [op |-> r.op, m |-> r.m, ret |-> v]

\* start_all_monitors_in_space, lines 251-252: the thread record with which the
\* loop calls schedule_monitor for the next monitor of the list
NextInBatch(r) ==
    [IdleThread EXCEPT !.op = r.op, !.pc = "sched", !.m = Head(r.batch).id,
                       !.local = Head(r.batch), !.batch = Tail(r.batch)]

\* the thread record and the recorded return after schedule_monitor has
\* returned v to its caller: start_all_monitors_in_space goes on with its loop
\* and returns nothing after the last monitor, the handlers return
AfterSchedule(r) ==
    IF r.op = "start_space" /\ r.batch # <<>> THEN NextInBatch(r) ELSE IdleThread

ReturnAfterSchedule(r, v) ==
    IF r.op = "start_space"
    THEN IF r.batch # <<>> THEN last ELSE Return(r, "none")
    ELSE Return(r, v)

\* MonitorRepository._to_domain_model: the object a store read returns
ToDomainModel(m) ==
    [id |-> m, status |-> monitors[m].status, lc |-> monitors[m].lc,
     lh |-> monitors[m].lh, interval |-> monitors[m].interval,
     name |-> monitors[m].name, space |-> monitors[m].space]

\* MonitorRepository.save: the base fields are overwritten from the object;
\* an existing row keeps its created_at, a missing row is inserted
SaveRow(row, o) ==
    [row EXCEPT !.status = o.status, !.lc = o.lc, !.lh = o.lh,
                !.interval = o.interval, !.name = o.name, !.space = o.space,
                !.stored = TRUE]

\* space_id of a monitor (never changed after the monitor is created)
SpaceOf(m) == monitors[m].space

save_monitor(o) == [monitors EXCEPT ![o.id] = SaveRow(@, o)]

\* ResultRepository.get_by_monitor_id(monitor_id, limit=1): the row with the
\* greatest timestamp, or none
LatestResult(m) ==
    LET idx == {i \in 1..Len(results) : results[i].mid = m}
    IN IF idx = {} THEN NoRes
       ELSE LET i == CHOOSE k \in idx : \A l \in idx : results[l].ts <= results[k].ts
            IN results[i]

\* should_send_notification as its comment reads ("Always notify on first check")
should_send_notification_first_always(new, prev) ==
    IF prev = NoStatus THEN TRUE ELSE prev # new

\* email_service.should_send_notification(result, previous_result), on statuses
should_send_notification(new, prev) ==
    IF prev = NoStatus THEN new = UNHEALTHY ELSE prev # new

Registered(m) == running_monitors[m] # NoJob

\* schedule: the jobs whose next_run has been reached (Job.should_run)
DueJobs == {j \in DOMAIN jobs : jobs[j] <= now}

\* sorted(runnable_jobs): by next_run, ties in list order
RECURSIVE SortJobs(_)
SortJobs(S) ==
    IF S = {} THEN <<>>
    ELSE LET j == CHOOSE k \in S : \A l \in S :
                      jobs[k] < jobs[l] \/ (jobs[k] = jobs[l] /\ k <= l)
         IN <<j>> \o SortJobs(S \ {j})

RemoveJob(j) == [k \in (DOMAIN jobs) \ {j} |-> jobs[k]]
AddJob(j, t) == [k \in (DOMAIN jobs) \cup {j} |-> IF k = j THEN t ELSE jobs[k]]

\* a monitor object that no job, no thread and no pass of the tick loop refers
\* to any more is garbage;
\* its slot is cleared (job ids are not reused)
Collect(os, js, ts) ==
    [j \in 1..Len(os) |->
        IF \/ j \in DOMAIN js
           \/ \E t \in Threads :
                 \/ ts[t].jid = j
                 \/ \E i \in 1..Len(ts[t].pending) : ts[t].pending[i] = j
        THEN os[j] ELSE NoObj]

InProbe(t) == th[t].pc \in {"check", "prev", "save_result", "save_monitor"}

\* bound on the number of probe executions (started or reserved by a
\* schedule_monitor call that has registered its job)
ProbeBudget ==
    nresults + Cardinality({t \in Threads : th[t].pc \in {"sched_save", "check"}})
        < MaxProbes

\* ------------------------------------------------------------- retention store
\* The result table as the retention engine sees it: rows counted by status
\* and timestamp. Timestamps are days; Today is datetime.now() of the runs
\* observed, and the three timestamps are older than both default cutoffs,
\* older than the healthy cutoff only, and of today.
ResultStatus == {HEALTHY, UNHEALTHY, UNKNOWN}
Today == 50
Stamps == {9, 39, 50}
Classes == ResultStatus \X Stamps
Counts == {0, 1, 9, 10, 1000, 2000}

\* data_cleanup_job.py lines 22-23, 52, 61
DefaultKeepHealthy == 7
DefaultKeepUnhealthy == 30
CapPercent == 90
BatchSize == 1000

\* the data_cleanup configurations observed: the defaults, TTLs below one day,
\* and the job disabled
Configs ==
    {[enabled |-> TRUE, keep_healthy |-> 7, keep_unhealthy |-> 30],
     [enabled |-> TRUE, keep_healthy |-> 0, keep_unhealthy |-> 30],
     [enabled |-> TRUE, keep_healthy |-> 7, keep_unhealthy |-> 0],
     [enabled |-> FALSE, keep_healthy |-> 7, keep_unhealthy |-> 30]}

NoPreview ==
    [healthy_to_delete |-> 0, unhealthy_to_delete |-> 0, total_to_delete |-> 0,
     total_results |-> 0, retention_after_cleanup |-> 0,
     healthy_cutoff_date |-> NoTime, unhealthy_cutoff_date |-> NoTime]

\* what a run of a system job returns: True, False, or nothing yet
Success == "True"
Failure == "False"
NoReturnYet == "none"

IdleCleanup ==
    [pc |-> "idle", si |-> 0, keep_healthy |-> 0, keep_unhealthy |-> 0,
     preview |-> NoPreview, healthy_deleted |-> 0, unhealthy_deleted |-> 0,
     ret |-> NoReturnYet, run_count |-> 0, error_count |-> 0]

NoRetention ==
    /\ table = [c \in Classes |-> 0]
    /\ cfg = [enabled |-> TRUE, keep_healthy |-> DefaultKeepHealthy,
              keep_unhealthy |-> DefaultKeepUnhealthy]
    /\ cleanup = IdleCleanup
    /\ preview = NoPreview

\* the number of rows of tb in the classes S
RECURSIVE CountRows(_, _)
CountRows(tb, S) ==
    IF S = {} THEN 0
    ELSE LET c == CHOOSE x \in S : TRUE
         IN tb[c] + CountRows(tb, S \ {c})

\* timestamp < cutoff_date and status in sts
Older(cutoff, sts) == {c \in Classes : c[1] \in sts /\ c[2] < cutoff}

\* ------------------------------------------------------------- control server
\* What a client sends on a connection: bytes that are not UTF-8, text that is
\* not JSON (the empty string of a closed connection included), JSON that is
\* not an object, an object whose action is not in command_routes, and an
\* object whose action is.
ConnIds == 1..MaxConns
Requests == {"undecodable", "not_json", "not_object", "unknown_action", "routed"}
\* what the handler of a routed request does
HandlerOutcomes == {"success", "error", "raises"}

NoEnvelope == [status |-> "none", message |-> "none"]
UnknownAction == [status |-> "error", message |-> "Unknown action"]
\* {'status': 'error', 'message': str(e)}
ErrorOf(e) == [status |-> "error", message |-> e]
\* the envelope a handler returns
HandlerEnvelope(o) == [status |-> o, message |-> "handler"]

IdleConn ==
    [pc |-> "none", data |-> "none", response |-> NoEnvelope, written |-> <<>>,
     closed |-> FALSE, dispatched |-> FALSE, peer |-> TRUE]

RunningDaemon ==
    [running |-> TRUE, stop_event |-> FALSE, tick_alive |-> TRUE,
     socket_file |-> TRUE, pid_file |-> TRUE, pool |-> "open",
     acceptor |-> "accept", handler |-> "none"]

\* the daemon is up and no connection has been accepted
NoServer ==
    /\ conns = [c \in ConnIds |-> IdleConn]
    /\ daemon = RunningDaemon


\* ------------------------------------------------------------- email and system jobs
\* health_alert_job.py line 29: the default of unhealthy_threshold_hours
DefaultThresholdHours == 24
\* timedelta(hours=1) in ticks of the clock (seconds)
Hour == 3600
\* datetime.now() of the first scan observed where health_alert is followed
\* over hours
ScanTime == 2 * Hour

\* mail.manager: ConfigManager.is_email_configured() (the email section of
\* data/webmonitor_config.json has smtp_host, smtp_port, username, password);
\* mail.username, mail.password: the credentials EmailService.load_from_config
\* took from data/email_config.json; mail.smtp: the SMTP server accepts the
\* message; mail.enabled, mail.threshold_hours: the health_alerts section.
ConfiguredMail ==
    [manager |-> TRUE, username |-> TRUE, password |-> TRUE, smtp |-> TRUE,
     enabled |-> TRUE, threshold_hours |-> DefaultThresholdHours]

\* EmailService.send_email(recipients, ...), lines 44-70: refused without
\* recipients or credentials (returns False before any SMTP exchange), failed
\* on an exception of the SMTP exchange (logged, returns False), sent otherwise
Refused == "refused"
Failed == "failed"
Sent == "sent"
SendOutcome(recipients) ==
    IF recipients = {} \/ ~mail.username \/ ~mail.password THEN Refused
    ELSE IF mail.smtp THEN Sent ELSE Failed

\* the value send_email returns
send_email(recipients) == SendOutcome(recipients) = Sent

\* the two threads that run a system job: the tick loop (schedule) and a
\* control worker (run_system_job_manually)
Runners == {"scheduled", "manual"}

\* BaseJob.__init__; finished and failed count the calls of run() that have
\* returned, and those of them that returned False
NewJob == [run_count |-> 0, error_count |-> 0, finished |-> 0, failed |-> 0]

IdleRun ==
    [pc |-> "idle", n |-> 0, unhealthy_monitors |-> {},
     monitors_by_space |-> [s \in {} |-> {}], todo |-> <<>>, at |-> NoTime,
     success |-> NoReturnYet, reg |-> 0, ret |-> NoReturnYet]

\* a run of the job is in progress on r; the number of runs begun
Running(r) == runs[r].pc # "idle"
Started == alert.finished + Cardinality({r \in Runners : Running(r)})

\* email is configured in both places, the SMTP server is up, and
\* health_alert has never run
NoAlerts ==
    /\ mail = ConfiguredMail
    /\ outbox = <<>>
    /\ alert = NewJob
    /\ runs = [r \in Runners |-> IdleRun]

\* ------------------------------------------------------------- probe engines
\* check_url (url_checker.py 26-129) and check_db (db_checker.py 21-96).
\* The monitor's settings and what the network and the database answer are
\* chosen when the engine starts and at each call that leaves the process.
Ok == "ok"
Signalled == "failed"

\* details = {}: no check has written its entry yet
NoDetails == [c \in {} |-> Ok]

\* details[check] = {...}
Put(details, check, entry) ==
    [c \in DOMAIN details \cup {check} |->
        IF c = check THEN entry ELSE details[c]]

IdleEngine ==
    [engine |-> "none", pc |-> "idle",
     check_content |-> FALSE, check_ssl |-> FALSE,
     db_type |-> "", test_query |-> FALSE,
     status |-> HEALTHY, failed_checks |-> 0,
     details |-> NoDetails, check_list |-> <<>>,
     connected |-> FALSE, query_failed |-> FALSE, close_failed |-> FALSE,
     raised |-> "none", returned |-> FALSE]

NoEngine == probe = IdleEngine

\* MonitorResult(status=status, failed_checks=failed_checks,
\* check_list=check_list, details=details) of the finally clause
Result(p) ==
    [status |-> p.status, failed_checks |-> p.failed_checks,
     check_list |-> p.check_list, details |-> p.details]

\* url_checker.py 31-36
UrlCheckList(check_content, check_ssl) ==
    <<"connection", "status_code">>
        \o (IF check_content THEN <<"content">> ELSE <<>>)
        \o (IF check_ssl THEN <<"ssl">> ELSE <<>>)

\* a check that found a failure: status = UNHEALTHY; failed_checks += 1;
\* details[check] = {..., 'message': ...}
Fail(p, check) ==
    [p EXCEPT !.status = UNHEALTHY,
              !.failed_checks = @ + 1,
              !.details = Put(@, check, Signalled)]

\* the same without the count
Except_uncounted(p, kind) ==
    [p EXCEPT !.status = UNHEALTHY,
              !.details = Put(@, "connection", Signalled),
              !.raised = kind,
              !.pc = "return"]

\* url_checker.py 95-115: the three except clauses do the same to the
\* locals: status = UNHEALTHY; failed_checks += 1; details['connection'] =
\* {'connected': False, ...}; control goes to the finally clause
Except(p, kind) ==
    [Fail(p, "connection") EXCEPT !.raised = kind, !.pc = "return"]

UrlExceptions == {"Timeout", "ConnectionError", "Exception"}

\* url_checker.py 27-36
check_url_begin ==
    /\ probe.pc = "idle"
    /\ ~probe.returned
    /\ \E content, ssl \in BOOLEAN :
          probe' = [IdleEngine EXCEPT
                       !.engine = "url", !.pc = "get",
                       !.check_content = content, !.check_ssl = ssl,
                       !.check_list = UrlCheckList(content, ssl)]
    /\ UNCHANGED <<schedVars, nsVars, catVars, listVars, retVars, srvVars,
                   alertVars, attempted>>

\* url_checker.py 40-49: requests.get answers, or raises
check_url_get ==
    /\ probe.engine = "url"
    /\ probe.pc = "get"
    /\ \/ probe' = [probe EXCEPT !.details = Put(@, "connection", Ok),
                                 !.connected = TRUE,
                                 !.pc = "status_code"]
       \/ \E kind \in UrlExceptions : probe' = Except(probe, kind)
    /\ UNCHANGED <<schedVars, nsVars, catVars, listVars, retVars, srvVars,
                   alertVars, attempted>>

\* url_checker.py 52-64
check_url_status_code ==
    /\ probe.engine = "url"
    /\ probe.pc = "status_code"
    /\ \E expected \in BOOLEAN :
          probe' = [(IF expected
                     THEN [probe EXCEPT !.details = Put(@, "status_code", Ok)]
                     ELSE Fail(probe, "status_code"))
                    EXCEPT !.pc = "content"]
    /\ UNCHANGED <<schedVars, nsVars, catVars, listVars, retVars, srvVars,
                   alertVars, attempted>>

\* url_checker.py 66-78; `monitor.check_content not in response.text` raises
\* TypeError when the stored check_content is not a string
check_url_content ==
    /\ probe.engine = "url"
    /\ probe.pc = "content"
    /\ \/ \E found \in BOOLEAN :
             probe' = [(IF probe.check_content /\ ~found
                        THEN Fail(probe, "content")
                        ELSE [probe EXCEPT !.details = Put(@, "content", Ok)])
                       EXCEPT !.pc = "ssl"]
       \/ /\ probe.check_content
          /\ probe' = Except(probe, "Exception")
    /\ UNCHANGED <<schedVars, nsVars, catVars, listVars, retVars, srvVars,
                   alertVars, attempted>>

\* url_checker.py 80-94 with get_ssl_expiry (131-172), which catches every
\* Exception and answers has_ssl False
check_url_ssl ==
    /\ probe.engine = "url"
    /\ probe.pc = "ssl"
    /\ IF probe.check_ssl
       THEN \E has_ssl \in BOOLEAN :
               probe' = [(IF has_ssl
                          THEN [probe EXCEPT !.details = Put(@, "ssl", Ok)]
                          ELSE Fail(probe, "ssl"))
                         EXCEPT !.pc = "return"]
       ELSE probe' = [probe EXCEPT !.pc = "return"]
    /\ UNCHANGED <<schedVars, nsVars, catVars, listVars, retVars, srvVars,
                   alertVars, attempted>>

\* monitor.py 193-207: the dialects test_connection_string knows; any other
\* db_type raises ValueError
Dialects == {"postgresql", "mysql", "sqlserver"}
DbTypes == {"postgresql", "oracle"}

\* db_checker.py 27
DbCheckList == <<"connection", "query">>

\* the same adding one only
DbExcept_single(p, kind) ==
    [p EXCEPT !.status = UNHEALTHY,
              !.failed_checks = @ + 1,
              !.details = Put(Put(@, "connection", Signalled), "query", Signalled),
              !.raised = kind,
              !.pc = "return"]

\* db_checker.py 71-82: except Exception: status = UNHEALTHY;
\* failed_checks += 2; details['connection'] and details['query'] rewritten
DbExcept(p, kind) ==
    [p EXCEPT !.status = UNHEALTHY,
              !.failed_checks = @ + 2,
              !.details = Put(Put(@, "connection", Signalled), "query", Signalled),
              !.raised = kind,
              !.pc = "return"]

\* db_checker.py 22-27
check_db_begin ==
    /\ probe.pc = "idle"
    /\ ~probe.returned
    /\ \E type \in DbTypes, query \in BOOLEAN :
          probe' = [IdleEngine EXCEPT
                       !.engine = "db", !.pc = "create_engine",
                       !.db_type = type, !.test_query = query,
                       !.check_list = DbCheckList]
    /\ UNCHANGED <<schedVars, nsVars, catVars, listVars, retVars, srvVars,
                   alertVars, attempted>>

\* db_checker.py 32-36: create_engine(monitor.test_connection_string(), ...)
check_db_create_engine ==
    /\ probe.engine = "db"
    /\ probe.pc = "create_engine"
    /\ probe' = IF probe.db_type \in Dialects
                THEN [probe EXCEPT !.pc = "connect"]
                ELSE DbExcept(probe, "ValueError")
    /\ UNCHANGED <<schedVars, nsVars, catVars, listVars, retVars, srvVars,
                   alertVars, attempted>>

\* db_checker.py 39-42: with engine.connect() as connection
check_db_connect ==
    /\ probe.engine = "db"
    /\ probe.pc = "connect"
    /\ \/ probe' = [probe EXCEPT !.details = Put(@, "connection", Ok),
                                 !.connected = TRUE,
                                 !.pc = "query"]
       \/ probe' = DbExcept(probe, "connect")
    /\ UNCHANGED <<schedVars, nsVars, catVars, listVars, retVars, srvVars,
                   alertVars, attempted>>

\* db_checker.py 45-70: the test query, if there is one, runs or raises
\* SQLAlchemyError, which the inner except clause handles
check_db_query ==
    /\ probe.engine = "db"
    /\ probe.pc = "query"
    /\ IF probe.test_query
       THEN \/ probe' = [probe EXCEPT !.details = Put(@, "query", Ok),
                                      !.pc = "close"]
            \/ probe' = [Fail(probe, "query") EXCEPT !.query_failed = TRUE,
                                                     !.pc = "close"]
       ELSE probe' = [probe EXCEPT !.pc = "close"]
    /\ UNCHANGED <<schedVars, nsVars, catVars, listVars, retVars, srvVars,
                   alertVars, attempted>>

\* db_checker.py 39 and 71: leaving the with block closes the connection
\* (Connection.__exit__); what close raises reaches the outer except clause
check_db_close ==
    /\ probe.engine = "db"
    /\ probe.pc = "close"
    /\ \/ probe' = [probe EXCEPT !.pc = "return"]
       \/ probe' = [DbExcept(probe, "close") EXCEPT !.close_failed = TRUE]
    /\ UNCHANGED <<schedVars, nsVars, catVars, listVars, retVars, srvVars,
                   alertVars, attempted>>


\* url_checker.py 116-129 and db_checker.py 83-96: finally: return
\* MonitorResult(...)
check_return ==
    /\ probe.pc = "return"
    /\ probe' = [probe EXCEPT !.pc = "idle", !.returned = TRUE]
    /\ UNCHANGED <<schedVars, nsVars, catVars, listVars, retVars, srvVars,
                   alertVars, attempted>>


\* ------------------------------------------------------------- initial state
\* the daemon has just been constructed over a store that holds two monitors
\* created earlier (create_monitor stores a monitor OFFLINE and never checked)
InitMonitors(sp) ==
    [m \in MonitorIds |->
        [status |-> OFFLINE, lc |-> NoTime, lh |-> NoTime,
         created |-> 0, interval |-> InitialInterval(m),
         name |-> InitialName(m), space |-> sp[m], stored |-> TRUE]]

\* every space is stored, under its id as name
AllSpaces == spaces = [s \in SpaceIds |-> [stored |-> TRUE, name |-> s]]

InitScheduler ==
    /\ now = 0
    /\ listing = [space |-> NoFilter, type |-> NoFilter, ids |-> {}]
    /\ results = <<>>
    /\ nresults = 0
    /\ notified = {}
    /\ attempted = {}
    /\ objs = <<>>
    /\ jobs = [j \in {} |-> 0]
    /\ running_monitors = [m \in MonitorIds |-> NoJob]
    /\ monitor_lock = LockFree
    /\ th = [t \in Threads |->
               IF t = TickThread THEN [IdleThread EXCEPT !.pc = "sleep"]
               ELSE IdleThread]
    /\ last = NoReturn
    /\ nrequests = 0

InitDaemon ==
    /\ InitScheduler
    /\ AllSpaces
    /\ NoRetention
    /\ NoServer
    /\ NoEngine
    /\ NoAlerts
    /\ monitors = InitMonitors([m \in MonitorIds |-> InitialSpace(m)])

InitHarness ==
    /\ nsPrev = NoStatus
    /\ nsNew = NoStatus
    /\ nsOut = FALSE
    /\ nsPhase = "input"
    /\ nsSteps = 0

Init ==
    /\ InitDaemon
    /\ nsPrev = NoStatus
    /\ nsNew = NoStatus
    /\ nsOut = FALSE
    /\ nsPhase = "input"
    /\ nsSteps = 0

\* ------------------------------------------------------------- _run_monitor
\* The four steps of one probe execution by thread t on the object objs[jid].
\* A thread enters at pc = "check" (BeginProbe) and leaves through one of the
\* two finish steps.
BeginProbe(r, j) ==
    [r EXCEPT !.pc = "check", !.jid = j, !.start = now, !.res = NoRes,
              !.prev = NoStatus]

\* lines 56-66: check_url / check_db returns a result (timestamp = now() at
\* the end of the check); monitor.status and last_checked_at are set
run_monitor_check(t, s) ==
    /\ th[t].pc = "check"
    /\ LET j == th[t].jid IN
       /\ objs' = [objs EXCEPT ![j].status = s, ![j].lc = now]
       /\ nresults' = nresults + 1
       /\ th' = [th EXCEPT ![t].pc = "prev", ![t].runs = @ + 1,
                           ![t].res = [mid |-> objs[j].id, status |-> s,
                                       ts |-> nresults + 1]]
    /\ UNCHANGED <<now, monitors, results, notified, jobs, running_monitors,
                   monitor_lock, last, nrequests, nsVars, extVars>>

\* lines 67-72: last_healthy_at is set on a HEALTHY result, then the most
\* recent stored result is read
run_monitor_prev(t) ==
    /\ th[t].pc = "prev"
    /\ LET j == th[t].jid IN
       /\ objs' = IF th[t].res.status = HEALTHY
                  THEN [objs EXCEPT ![j].lh = now] ELSE objs
       /\ th' = [th EXCEPT ![t].pc = "save_result",
                           ![t].prev = LatestResult(objs[j].id).status]
    /\ UNCHANGED <<now, monitors, results, nresults, notified, jobs,
                   running_monitors, monitor_lock, last, nrequests, nsVars, extVars>>

\* line 75: database.save_result(result)
run_monitor_save_result(t) ==
    /\ th[t].pc = "save_result"
    /\ results' = Append(results, th[t].res)
    /\ th' = [th EXCEPT ![t].pc = "save_monitor"]
    /\ UNCHANGED <<now, monitors, nresults, notified, objs, jobs,
                   running_monitors, monitor_lock, last, nrequests, nsVars, extVars>>

\* lines 81-88: the per-check email decision for result res with previous
\* status prev
Notify(res, prev) ==
    IF /\ should_send_notification(res.status, prev)
       /\ notification_emails(SpaceOf(res.mid)) # {}
       /\ send_email(notification_emails(SpaceOf(res.mid)))
    THEN notified \cup {res.ts} ELSE notified

\* the decision with a failed email sent again by the next probe
Dispatch_retry(res, prev) ==
    IF /\ \/ should_send_notification(res.status, prev)
          \/ attempted \ notified # {}
       /\ notification_emails(SpaceOf(res.mid)) # {}
    THEN attempted \cup {res.ts} ELSE attempted

\* lines 81-87: the results send_monitor_result_email has been called for
Dispatch(res, prev) ==
    IF /\ should_send_notification(res.status, prev)
       /\ notification_emails(SpaceOf(res.mid)) # {}
    THEN attempted \cup {res.ts} ELSE attempted

\* lines 76-88 on a control thread (the immediate run of schedule_monitor,
\* line 152), followed by schedule_monitor's return True (line 154)
run_monitor_finish_control(t) ==
    /\ t \in ControlThreads
    /\ th[t].pc = "save_monitor"
    /\ monitors' = save_monitor(objs[th[t].jid])
    /\ notified' = Notify(th[t].res, th[t].prev)
    /\ attempted' = Dispatch(th[t].res, th[t].prev)
    /\ monitor_lock' = LockFree
    /\ th' = [th EXCEPT ![t] = AfterSchedule(th[t])]
    /\ last' = ReturnAfterSchedule(th[t], "true")
    /\ UNCHANGED <<now, results, nresults, objs, jobs, running_monitors, nrequests,
                   nsVars, catVars, listVars, retVars, srvVars, alertVars, engineVars>>

\* lines 76-88 on the tick thread, followed by Job.run's _schedule_next_run:
\* next_run = now + interval (the job may have been cancelled meanwhile);
\* after the last job of the pass the loop sleeps (time.sleep(1))
run_monitor_finish_tick ==
    /\ th[TickThread].pc = "save_monitor"
    /\ LET j == th[TickThread].jid IN
       /\ monitors' = save_monitor(objs[j])
       /\ notified' = Notify(th[TickThread].res, th[TickThread].prev)
       /\ attempted' = Dispatch(th[TickThread].res, th[TickThread].prev)
       /\ jobs' = IF j \in DOMAIN jobs
                  THEN [jobs EXCEPT ![j] = now + objs[j].interval] ELSE jobs
       /\ th' = [th EXCEPT ![TickThread] =
                    IF th[TickThread].pending = <<>>
                    THEN [IdleThread EXCEPT !.pc = "sleep"]
                    ELSE [IdleThread EXCEPT !.pc = "pass",
                                            !.pending = th[TickThread].pending]]
       /\ objs' = Collect(objs, jobs', th')
    /\ UNCHANGED <<now, results, nresults, running_monitors,
                   monitor_lock, last, nrequests, nsVars, catVars, listVars,
                   retVars, srvVars, alertVars, engineVars>>

\* ------------------------------------------------------------- tick loop
\* _run_scheduler, lines 47-49: while stop_event is not set, run_pending()
\* collects and sorts the due jobs and runs the first of them on the tick thread
tick_run_pending ==
    /\ th[TickThread].pc = "sleep"
    /\ ~daemon.stop_event
    /\ DueJobs # {}
    /\ ProbeBudget
    /\ LET pass == SortJobs(DueJobs) IN
       th' = [th EXCEPT ![TickThread] =
                 [BeginProbe(@, Head(pass)) EXCEPT !.pending = Tail(pass)]]
    /\ UNCHANGED <<now, monitors, results, nresults, notified, objs, jobs,
                   running_monitors, monitor_lock, last, nrequests, nsVars, extVars>>

\* run_pending's loop: the next job of the pass is run on the tick thread
tick_run_job ==
    /\ th[TickThread].pc = "pass"
    /\ ProbeBudget
    /\ th' = [th EXCEPT ![TickThread] =
                 [BeginProbe(@, Head(th[TickThread].pending))
                    EXCEPT !.pending = Tail(th[TickThread].pending)]]
    /\ UNCHANGED <<now, monitors, results, nresults, notified, objs, jobs,
                   running_monitors, monitor_lock, last, nrequests, nsVars, extVars>>

\* the wall clock advances by one tick
advance_clock ==
    /\ now < MaxTime
    /\ now' = now + 1
    /\ UNCHANGED <<monitors, results, nresults, notified, objs, jobs,
                   running_monitors, monitor_lock, th, last, nrequests, nsVars, extVars>>

\* ------------------------------------------------------------- control requests
\* A request is taken by the lowest-numbered free worker of the pool
\* (daemon.py line 179); the workers are interchangeable.
FreeWorker(t) ==
    /\ t \in ControlThreads
    /\ nrequests < MaxRequests
    /\ th[t].pc = "idle"
    /\ t = "c2" => th["c1"].pc # "idle"

NewRequest(op, m) == [IdleThread EXCEPT !.op = op, !.m = m]

\* the thread record with which a scheduler call on monitor m starts: either
\* a new request op of a free worker, or a call made inside a running request
\* that has reached position pc
Caller(t, op, m, pc) ==
    IF th[t].pc = "idle" THEN NewRequest(op, m) ELSE th[t]

Calls(t, m, pc) ==
    \/ FreeWorker(t)
    \/ th[t].pc = pc /\ th[t].m = m

\* ------------------------------------------------------------- schedule_monitor
\* monitor_handler.start_monitor lines 34-36: no monitor with this id is stored
start_monitor_not_found(t, m) ==
    /\ FreeWorker(t)
    /\ ~monitors[m].stored
    /\ last' = Return(NewRequest("start_monitor", m), "error")
    /\ nrequests' = nrequests + 1
    /\ UNCHANGED <<now, monitors, results, nresults, notified, objs, jobs,
                   running_monitors, monitor_lock, th, nsVars, extVars>>

\* monitor_handler.start_monitor lines 17-39: the monitor is read from the store
start_monitor(t, m) ==
    /\ FreeWorker(t)
    /\ monitors[m].stored
    /\ th' = [th EXCEPT ![t] = [NewRequest("start_monitor", m) EXCEPT
                                  !.pc = "sched", !.local = ToDomainModel(m)]]
    /\ nrequests' = nrequests + 1
    /\ UNCHANGED <<now, monitors, results, nresults, notified, objs, jobs,
                   running_monitors, monitor_lock, last, nsVars, extVars>>

\* scheduler.py lines 126-131: the id is already in running_monitors
schedule_monitor_reject(t) ==
    /\ th[t].pc = "sched"
    /\ monitor_lock = LockFree
    /\ Registered(th[t].m)
    /\ th' = [th EXCEPT ![t] = AfterSchedule(th[t])]
    /\ last' = ReturnAfterSchedule(th[t], "false")
    /\ UNCHANGED <<now, monitors, results, nresults, notified, objs, jobs,
                   running_monitors, monitor_lock, nrequests, nsVars, extVars>>

\* lines 133-144: the job is created (next_run = now + interval), stored in
\* running_monitors under the monitor object, and the object is set UNKNOWN
schedule_monitor_register(t) ==
    /\ th[t].pc = "sched"
    /\ monitor_lock = LockFree
    /\ ~Registered(th[t].m)
    /\ Len(objs) < MaxJobs
    /\ ProbeBudget
    /\ LET j == Len(objs) + 1
           o == [th[t].local EXCEPT !.status = UNKNOWN] IN
       /\ objs' = Append(objs, o)
       /\ jobs' = AddJob(j, now + o.interval)
       /\ running_monitors' = [running_monitors EXCEPT ![th[t].m] = j]
       /\ th' = [th EXCEPT ![t].pc = "sched_save", ![t].jid = j,
                           ![t].local = NoObj]
    /\ monitor_lock' = t
    /\ UNCHANGED <<now, monitors, results, nresults, notified, last, nrequests, nsVars, extVars>>

\* lines 146-152: save_monitor(monitor), then the immediate first run begins
schedule_monitor_save(t) ==
    /\ th[t].pc = "sched_save"
    /\ monitors' = save_monitor(objs[th[t].jid])
    /\ th' = [th EXCEPT ![t] = BeginProbe(@, th[t].jid)]
    /\ UNCHANGED <<now, results, nresults, notified, objs, jobs,
                   running_monitors, monitor_lock, last, nrequests, nsVars, extVars>>

\* ------------------------------------------------------------- stop_monitor
\* where a handler goes on after its call of scheduler.stop_monitor:
\* delete_monitor deletes the row, update_monitor checks a new name or saves
AfterStop(r) ==
    IF r.op = "delete_monitor" THEN "del_row"
    ELSE IF r.newName # NoName THEN "upd_name"
    ELSE "upd_save"

\* monitor_handler.stop_monitor lines 45-66 calls scheduler.stop_monitor;
\* update_monitor calls it at line 199.
\* scheduler.py lines 156-167: no monitor with this id is registered
stop_monitor_reject(t, m) ==
    /\ Calls(t, m, "stop")
    /\ monitor_lock = LockFree
    /\ ~Registered(m)
    /\ IF th[t].pc = "idle"
       THEN /\ th' = [th EXCEPT ![t] = IdleThread]
            /\ last' = Return(NewRequest("stop_monitor", m), "false")
       ELSE /\ th' = [th EXCEPT ![t].pc = AfterStop(th[t])]
            /\ last' = last
    /\ nrequests' = IF th[t].pc = "idle" THEN nrequests + 1 ELSE nrequests
    /\ UNCHANGED <<now, monitors, results, nresults, notified, objs, jobs,
                   running_monitors, monitor_lock, nsVars, extVars>>

\* lines 169-173: the job is popped from running_monitors and cancelled
stop_monitor_cancel(t, m) ==
    /\ Calls(t, m, "stop")
    /\ monitor_lock = LockFree
    /\ Registered(m)
    /\ jobs' = RemoveJob(running_monitors[m])
    /\ running_monitors' = [running_monitors EXCEPT ![m] = NoJob]
    /\ monitor_lock' = t
    /\ th' = [th EXCEPT ![t] = [Caller(t, "stop_monitor", m, "stop")
                                  EXCEPT !.pc = "stop_get"]]
    /\ objs' = Collect(objs, jobs', th')
    /\ nrequests' = IF th[t].pc = "idle" THEN nrequests + 1 ELSE nrequests
    /\ UNCHANGED <<now, monitors, results, nresults, notified, last, nsVars, extVars>>

\* line 176: monitor = database.get_monitor(monitor_id)
stop_monitor_get(t) ==
    /\ th[t].pc = "stop_get"
    /\ th' = [th EXCEPT ![t].pc = "stop_save",
                        ![t].tmp = IF monitors[th[t].m].stored
                                   THEN ToDomainModel(th[t].m) ELSE NoObj]
    /\ UNCHANGED <<now, monitors, results, nresults, notified, objs, jobs,
                   running_monitors, monitor_lock, last, nrequests, nsVars, extVars>>

\* stop_monitor without line 178: the freshly read monitor is saved as read
stop_monitor_save_as_read(t) ==
    /\ th[t].pc = "stop_save"
    /\ monitors' = IF th[t].tmp = NoObj THEN monitors
                   ELSE save_monitor(th[t].tmp)
    /\ monitor_lock' = LockFree
    /\ IF th[t].op = "stop_monitor"
       THEN /\ th' = [th EXCEPT ![t] = IdleThread]
            /\ last' = Return(th[t], "true")
       ELSE /\ th' = [th EXCEPT ![t].pc = AfterStop(th[t]), ![t].tmp = NoObj]
            /\ last' = last
    /\ UNCHANGED <<now, results, nresults, notified, objs, jobs,
                   running_monitors, nrequests, nsVars, extVars>>

\* lines 177-184: the freshly read monitor is saved with status OFFLINE
stop_monitor_save(t) ==
    /\ th[t].pc = "stop_save"
    /\ monitors' = IF th[t].tmp = NoObj THEN monitors
                   ELSE save_monitor([th[t].tmp EXCEPT !.status = OFFLINE])
    /\ monitor_lock' = LockFree
    /\ IF th[t].op = "stop_monitor"
       THEN /\ th' = [th EXCEPT ![t] = IdleThread]
            /\ last' = Return(th[t], "true")
       ELSE /\ th' = [th EXCEPT ![t].pc = AfterStop(th[t]), ![t].tmp = NoObj]
            /\ last' = last
    /\ UNCHANGED <<now, results, nresults, notified, objs, jobs,
                   running_monitors, nrequests, nsVars, extVars>>

\* ------------------------------------------------------------- update_monitor
\* monitor_handler.update_monitor lines 184-192: the monitor is read
update_monitor(t, m, iv) ==
    /\ FreeWorker(t)
    /\ th' = [th EXCEPT ![t] = [NewRequest("update_monitor", m) EXCEPT
                                  !.pc = "upd_list", !.arg = iv,
                                  !.local = ToDomainModel(m)]]
    /\ nrequests' = nrequests + 1
    /\ UNCHANGED <<now, monitors, results, nresults, notified, objs, jobs,
                   running_monitors, monitor_lock, last, nsVars, extVars>>

\* lines 194-199: list_running_monitors() snapshot under the lock
update_monitor_list(t) ==
    /\ th[t].pc = "upd_list"
    /\ monitor_lock = LockFree
    /\ th' = [th EXCEPT ![t].wasRunning = Registered(th[t].m),
                        ![t].pc = IF Registered(th[t].m) THEN "stop"
                                   ELSE AfterStop(th[t])]
    /\ UNCHANGED <<now, monitors, results, nresults, notified, objs, jobs,
                   running_monitors, monitor_lock, last, nrequests, nsVars, extVars>>

\* lines 201-249: the fields are changed on the object read at the start and
\* the object is saved; a monitor that was running is scheduled again
update_monitor_save(t) ==
    /\ th[t].pc = "upd_save"
    /\ LET o == IF th[t].newName # NoName
                THEN [th[t].local EXCEPT !.name = th[t].newName]
                ELSE [th[t].local EXCEPT !.interval = th[t].arg] IN
       /\ monitors' = save_monitor(o)
       /\ IF th[t].wasRunning
          THEN /\ th' = [th EXCEPT ![t].local = o, ![t].pc = "sched"]
               /\ last' = last
          ELSE /\ th' = [th EXCEPT ![t] = IdleThread]
               /\ last' = Return(th[t], "none")
    /\ UNCHANGED <<now, results, nresults, notified, objs, jobs,
                   running_monitors, monitor_lock, nrequests, nsVars, extVars>>

\* ------------------------------------------------------------- start_all_monitors_in_space
\* the stored monitors of a set in the order of the query result
RECURSIVE InRowOrder(_)
InRowOrder(S) ==
    IF S = {} THEN <<>>
    ELSE LET m == CHOOSE k \in S : \A l \in S : k = l \/ (k = "m1" /\ l = "m2")
         IN <<ToDomainModel(m)>> \o InRowOrder(S \ {m})

\* start_all_monitors_in_space without the filter of lines 245-248
NotRunning_unfiltered(q) == q

\* the monitors of a list that are not in running_monitors (lines 245-248)
RECURSIVE NotRunning(_)
NotRunning(q) ==
    IF q = <<>> THEN <<>>
    ELSE IF Registered(Head(q).id) THEN NotRunning(Tail(q))
         ELSE <<Head(q)>> \o NotRunning(Tail(q))

\* space_handler.start_space line 30; scheduler.py line 239:
\* monitors_to_start = database.get_monitors_for_space(space_id)
start_all_monitors_in_space_read(t, s) ==
    /\ FreeWorker(t)
    /\ th' = [th EXCEPT ![t] = [NewRequest("start_space", s) EXCEPT
                 !.pc = "start_all",
                 !.batch = InRowOrder({m \in MonitorIds :
                                         monitors[m].stored /\ SpaceOf(m) = s})]]
    /\ nrequests' = nrequests + 1
    /\ UNCHANGED <<now, monitors, results, nresults, notified, objs, jobs,
                   running_monitors, monitor_lock, last, nsVars, extVars>>

\* lines 243-254: the running monitors are filtered out under the lock; the
\* loop then calls schedule_monitor for the first monitor that is left, or the
\* call returns when none is left
start_all_monitors_in_space_filter(t) ==
    /\ th[t].pc = "start_all"
    /\ monitor_lock = LockFree
    /\ LET r == [th[t] EXCEPT !.batch = NotRunning(th[t].batch)] IN
       /\ th' = [th EXCEPT ![t] = AfterSchedule(r)]
       /\ last' = ReturnAfterSchedule(r, "none")
    /\ UNCHANGED <<now, monitors, results, nresults, notified, objs, jobs,
                   running_monitors, monitor_lock, nrequests, nsVars, extVars>>

\* ------------------------------------------------------------- stop_all_monitors_in_space
\* the registered monitors of a set in dict (insertion) order
RECURSIVE InDictOrder(_)
InDictOrder(S) ==
    IF S = {} THEN <<>>
    ELSE LET m == CHOOSE k \in S : \A l \in S : running_monitors[k] <= running_monitors[l]
         IN <<m>> \o InDictOrder(S \ {m})

\* space_handler.stop_space line 48; scheduler.py lines 257-258:
\* list(self.running_monitors.items()) under the lock
stop_all_monitors_in_space_enter(t, s) ==
    /\ FreeWorker(t)
    /\ monitor_lock = LockFree
    /\ monitor_lock' = t
    /\ th' = [th EXCEPT ![t] = [NewRequest("stop_space", s) EXCEPT
                 !.pc = "stop_all",
                 !.todo = InDictOrder({m \in MonitorIds :
                                         Registered(m) /\ SpaceOf(m) = s})]]
    /\ nrequests' = nrequests + 1
    /\ UNCHANGED <<now, monitors, results, nresults, notified, objs, jobs,
                   running_monitors, last, nsVars, extVars>>

\* one iteration without lines 262-264: cancel and pop only
stop_all_monitors_in_space_step_unsaved(t) ==
    /\ th[t].pc = "stop_all"
    /\ th[t].todo # <<>>
    /\ LET m == Head(th[t].todo)
           j == running_monitors[m] IN
       /\ jobs' = RemoveJob(j)
       /\ running_monitors' = [running_monitors EXCEPT ![m] = NoJob]
       /\ th' = [th EXCEPT ![t].todo = Tail(@)]
       /\ objs' = Collect(objs, jobs', th')
    /\ UNCHANGED <<now, monitors, results, nresults, notified, monitor_lock,
                   last, nrequests, nsVars, extVars>>

\* lines 259-264: one iteration: cancel, pop, mark the in-memory object OFFLINE
\* and save it
stop_all_monitors_in_space_step(t) ==
    /\ th[t].pc = "stop_all"
    /\ th[t].todo # <<>>
    /\ LET m == Head(th[t].todo)
           j == running_monitors[m] IN
       /\ jobs' = RemoveJob(j)
       /\ running_monitors' = [running_monitors EXCEPT ![m] = NoJob]
       /\ th' = [th EXCEPT ![t].todo = Tail(@)]
       /\ objs' = Collect([objs EXCEPT ![j].status = OFFLINE], jobs', th')
       /\ monitors' = save_monitor([objs[j] EXCEPT !.status = OFFLINE])
    /\ UNCHANGED <<now, results, nresults, notified, monitor_lock, last, nrequests, nsVars, extVars>>

\* line 265: the loop is over, the lock is released
stop_all_monitors_in_space_exit(t) ==
    /\ th[t].pc = "stop_all"
    /\ th[t].todo = <<>>
    /\ monitor_lock' = LockFree
    /\ IF th[t].op = "delete_space"
       THEN /\ th' = [th EXCEPT ![t].pc = "del_list"]
            /\ last' = last
       ELSE /\ th' = [th EXCEPT ![t] = IdleThread]
            /\ last' = Return(th[t], "none")
    /\ UNCHANGED <<now, monitors, results, nresults, notified, objs, jobs,
                   running_monitors, nrequests, nsVars, extVars>>

\* ------------------------------------------------------------- stop_all_monitors
\* scheduler.py lines 267-269: the lock is taken and the loop over
\* running_monitors.items() begins
stop_all_monitors_enter(t) ==
    /\ FreeWorker(t)
    /\ monitor_lock = LockFree
    /\ monitor_lock' = t
    /\ th' = [th EXCEPT ![t] = [NewRequest("stop_all", NoMonitor) EXCEPT
                 !.pc = "stop_everything",
                 !.todo = InDictOrder({m \in MonitorIds : Registered(m)})]]
    /\ nrequests' = nrequests + 1
    /\ UNCHANGED <<now, monitors, results, nresults, notified, objs, jobs,
                   running_monitors, last, nsVars, extVars>>

\* lines 270-273: one iteration: the job is cancelled, the in-memory object is
\* marked OFFLINE and saved (the entry stays in running_monitors)
stop_all_monitors_step(t) ==
    /\ th[t].pc = "stop_everything"
    /\ th[t].todo # <<>>
    /\ LET m == Head(th[t].todo)
           j == running_monitors[m] IN
       /\ jobs' = RemoveJob(j)
       /\ th' = [th EXCEPT ![t].todo = Tail(@)]
       /\ objs' = [objs EXCEPT ![j].status = OFFLINE]
       /\ monitors' = save_monitor([objs[j] EXCEPT !.status = OFFLINE])
    /\ UNCHANGED <<now, results, nresults, notified, running_monitors,
                   monitor_lock, last, nrequests, nsVars, extVars>>

\* lines 274-275: running_monitors.clear(), the lock is released
stop_all_monitors_exit(t) ==
    /\ th[t].pc = "stop_everything"
    /\ th[t].todo = <<>>
    /\ running_monitors' = [m \in MonitorIds |-> NoJob]
    /\ monitor_lock' = LockFree
    /\ th' = [th EXCEPT ![t] = IdleThread]
    /\ objs' = Collect(objs, jobs, th')
    /\ last' = Return(th[t], "none")
    /\ UNCHANGED <<now, monitors, results, nresults, notified, jobs,
                   nrequests, nsVars, extVars>>

\* ------------------------------------------------------------- list_running_monitors
\* scheduler.py lines 221-231: without a space_id every key of running_monitors
\* is returned; with one, the keys of that space that also match the
\* monitor_type when it is given
ListRunning(sp, ty) ==
    IF sp = NoFilter
    THEN {m \in MonitorIds : Registered(m)}
    ELSE {m \in MonitorIds :
             /\ Registered(m)
             /\ SpaceOf(m) = sp
             /\ (ty = NoFilter \/ TypeOf(m) = ty)}

\* lines 219-231: one call, under the lock
list_running_monitors(t, sp, ty) ==
    /\ FreeWorker(t)
    /\ monitor_lock = LockFree
    /\ listing' = [space |-> sp, type |-> ty, ids |-> ListRunning(sp, ty)]
    /\ last' = Return(NewRequest("list_running", NoMonitor), "none")
    /\ nrequests' = nrequests + 1
    /\ UNCHANGED <<now, monitors, results, nresults, notified, objs, jobs,
                   running_monitors, monitor_lock, th, nsVars, catVars, retVars, srvVars, alertVars, attempted, engineVars>>

\* ------------------------------------------------------------- catalog
\* the ids of a list of monitor objects
IdsOfRows(q) == [i \in 1..Len(q) |-> q[i].id]

\* Create, rename and delete requests on monitors and spaces. A handler's
\* checks are one step and each of its writes is a step of its own: every
\* store call opens and commits its own session (database.py).

\* the relationship cascades of the schema: a deleted monitor takes its
\* results with it
DeleteMonitors(S) ==
    [m \in MonitorIds |->
        IF m \in S THEN [monitors[m] EXCEPT !.stored = FALSE] ELSE monitors[m]]

DeleteResults(S) == SelectSeq(results, LAMBDA r : r.mid \notin S)

\* database.get_monitor_by_name(name, space_id) finds a row
MonitorNamed(n, s) ==
    {m \in MonitorIds :
        monitors[m].stored /\ monitors[m].name = n /\ monitors[m].space = s}

\* database.get_space_by_name(name) finds a row
SpaceNamed(n) == {s \in SpaceIds : spaces[s].stored /\ spaces[s].name = n}

\* an id that uuid4 can still produce: no row has had it and no request is
\* creating it
FreshMonitor(m) ==
    /\ ~monitors[m].stored
    /\ monitors[m].created = NoTime
    /\ \A u \in ControlThreads : th[u].m # m

FreshSpace(s) ==
    /\ ~spaces[s].stored
    /\ spaces[s].name = NoName
    /\ \A u \in ControlThreads : th[u].m # s

\* a handler returns v at once
Answer(t, op, x, v) ==
    /\ th' = th
    /\ last' = Return(NewRequest(op, x), v)

\* monitor_handler.create_monitor lines 113-127: the space must be stored and
\* the name unused in it; the monitor is built with a new id
create_monitor(t, m, s, n) ==
    /\ FreeWorker(t)
    /\ FreshMonitor(m)
    /\ IF ~spaces[s].stored \/ MonitorNamed(n, s) # {}
       THEN Answer(t, "create_monitor", m, "error")
       ELSE /\ th' = [th EXCEPT ![t] = [NewRequest("create_monitor", m) EXCEPT
                         !.pc = "create_save",
                         !.local = [NoObj EXCEPT !.id = m, !.name = n, !.space = s,
                                                 !.interval = InitialInterval(m)]]]
            /\ last' = last
    /\ nrequests' = nrequests + 1
    /\ UNCHANGED <<now, monitors, results, nresults, notified, objs, jobs,
                   running_monitors, monitor_lock, nsVars, extVars>>

\* lines 177-182: save_monitor inserts the row
create_monitor_save(t) ==
    /\ th[t].pc = "create_save"
    /\ monitors' = [save_monitor(th[t].local) EXCEPT ![th[t].m].created = now]
    /\ th' = [th EXCEPT ![t] = IdleThread]
    /\ last' = Return(th[t], "success")
    /\ UNCHANGED <<now, results, nresults, notified, objs, jobs,
                   running_monitors, monitor_lock, nrequests, nsVars, extVars>>

\* monitor_handler.update_monitor lines 184-192 with a name in the request
update_monitor_name(t, m, n) ==
    /\ FreeWorker(t)
    /\ IF ~monitors[m].stored
       THEN Answer(t, "update_monitor", m, "error")
       ELSE /\ th' = [th EXCEPT ![t] = [NewRequest("update_monitor", m) EXCEPT
                         !.pc = "upd_list", !.newName = n,
                         !.local = ToDomainModel(m)]]
            /\ last' = last
    /\ nrequests' = nrequests + 1
    /\ UNCHANGED <<now, monitors, results, nresults, notified, objs, jobs,
                   running_monitors, monitor_lock, nsVars, extVars>>

\* lines 202-209: a new name must be unused in the monitor's space; the
\* handler returns the error without starting the monitor it has stopped
update_monitor_check_name(t) ==
    /\ th[t].pc = "upd_name"
    /\ IF /\ th[t].newName # th[t].local.name
          /\ MonitorNamed(th[t].newName, th[t].local.space) \ {th[t].m} # {}
       THEN /\ th' = [th EXCEPT ![t] = IdleThread]
            /\ last' = Return(th[t], "error")
       ELSE /\ th' = [th EXCEPT ![t].pc = "upd_save"]
            /\ last' = last
    /\ UNCHANGED <<now, monitors, results, nresults, notified, objs, jobs,
                   running_monitors, monitor_lock, nrequests, nsVars, extVars>>

\* monitor_handler.delete_monitor lines 257-264: scheduler.stop_monitor first
delete_monitor(t, m) ==
    /\ FreeWorker(t)
    /\ th' = [th EXCEPT ![t] = [NewRequest("delete_monitor", m) EXCEPT
                                  !.pc = "stop"]]
    /\ nrequests' = nrequests + 1
    /\ UNCHANGED <<now, monitors, results, nresults, notified, objs, jobs,
                   running_monitors, monitor_lock, last, nsVars, extVars>>

\* lines 266-273: database.delete_monitor; False when no row is found
delete_monitor_row(t) ==
    /\ th[t].pc = "del_row"
    /\ monitors' = DeleteMonitors({th[t].m})
    /\ results' = IF monitors[th[t].m].stored THEN DeleteResults({th[t].m})
                  ELSE results
    /\ th' = [th EXCEPT ![t] = IdleThread]
    /\ last' = Return(th[t], IF monitors[th[t].m].stored THEN "success"
                             ELSE "error")
    /\ UNCHANGED <<now, nresults, notified, objs, jobs,
                   running_monitors, monitor_lock, nrequests, nsVars, extVars>>

\* space_handler.delete_space lines 134-141: stop_all_monitors_in_space
delete_space(t, s) ==
    /\ FreeWorker(t)
    /\ monitor_lock = LockFree
    /\ monitor_lock' = t
    /\ th' = [th EXCEPT ![t] = [NewRequest("delete_space", s) EXCEPT
                 !.pc = "stop_all",
                 !.todo = InDictOrder({m \in MonitorIds :
                                         Registered(m) /\ SpaceOf(m) = s})]]
    /\ nrequests' = nrequests + 1
    /\ UNCHANGED <<now, monitors, results, nresults, notified, objs, jobs,
                   running_monitors, last, nsVars, extVars>>

\* line 144: database.get_monitors_for_space
delete_space_list(t) ==
    /\ th[t].pc = "del_list"
    /\ th' = [th EXCEPT ![t].pc = "del_monitors",
                        ![t].todo = IdsOfRows(InRowOrder(
                            {m \in MonitorIds : monitors[m].stored
                                                /\ monitors[m].space = th[t].m}))]
    /\ UNCHANGED <<now, monitors, results, nresults, notified, objs, jobs,
                   running_monitors, monitor_lock, last, nrequests, nsVars, extVars>>

\* lines 145-146: database.delete_monitor for the next monitor of the list
delete_space_delete_monitor(t) ==
    /\ th[t].pc = "del_monitors"
    /\ th[t].todo # <<>>
    /\ LET m == Head(th[t].todo) IN
       /\ monitors' = DeleteMonitors({m})
       /\ results' = IF monitors[m].stored THEN DeleteResults({m}) ELSE results
    /\ th' = [th EXCEPT ![t].todo = Tail(@)]
    /\ UNCHANGED <<now, nresults, notified, objs, jobs, running_monitors,
                   monitor_lock, last, nrequests, nsVars, extVars>>

\* lines 148-155: database.delete_space; the row takes the monitors that are
\* stored for the space at that moment, and their results, with it
delete_space_row(t) ==
    /\ th[t].pc = "del_monitors"
    /\ th[t].todo = <<>>
    /\ LET s == th[t].m
           owned == {m \in MonitorIds : monitors[m].stored /\ monitors[m].space = s}
       IN IF spaces[s].stored
          THEN /\ spaces' = [spaces EXCEPT ![s].stored = FALSE]
               /\ monitors' = DeleteMonitors(owned)
               /\ results' = DeleteResults(owned)
               /\ last' = Return(th[t], "success")
          ELSE /\ UNCHANGED <<spaces, monitors, results>>
               /\ last' = Return(th[t], "error")
    /\ th' = [th EXCEPT ![t] = IdleThread]
    /\ UNCHANGED <<now, nresults, notified, objs, jobs, running_monitors,
                   monitor_lock, nrequests, nsVars, listVars, retVars, srvVars, alertVars, attempted, engineVars>>

\* space_handler.create_space lines 74-83: the name must be unused
create_space(t, s, n) ==
    /\ FreeWorker(t)
    /\ FreshSpace(s)
    /\ IF SpaceNamed(n) # {}
       THEN Answer(t, "create_space", s, "error")
       ELSE /\ th' = [th EXCEPT ![t] = [NewRequest("create_space", s) EXCEPT
                         !.pc = "space_save", !.newName = n]]
            /\ last' = last
    /\ nrequests' = nrequests + 1
    /\ UNCHANGED <<now, monitors, results, nresults, notified, objs, jobs,
                   running_monitors, monitor_lock, nsVars, extVars>>

\* space_handler.update_space lines 102-119: the space must be stored and a
\* new name unused
update_space(t, s, n) ==
    /\ FreeWorker(t)
    /\ IF ~spaces[s].stored \/ (n # spaces[s].name /\ SpaceNamed(n) \ {s} # {})
       THEN Answer(t, "update_space", s, "error")
       ELSE /\ th' = [th EXCEPT ![t] = [NewRequest("update_space", s) EXCEPT
                         !.pc = "space_save", !.newName = n]]
            /\ last' = last
    /\ nrequests' = nrequests + 1
    /\ UNCHANGED <<now, monitors, results, nresults, notified, objs, jobs,
                   running_monitors, monitor_lock, nsVars, extVars>>

\* database.save_space: SpaceRepository.save updates the row or inserts a
\* missing one; the commit fails on the unique index of spaces.name
save_space(t) ==
    /\ th[t].pc = "space_save"
    /\ IF SpaceNamed(th[t].newName) \ {th[t].m} # {}
       THEN /\ spaces' = spaces
            /\ last' = Return(th[t], "error")
       ELSE /\ spaces' = [spaces EXCEPT ![th[t].m] =
                             [stored |-> TRUE, name |-> th[t].newName]]
            /\ last' = Return(th[t], "success")
    /\ th' = [th EXCEPT ![t] = IdleThread]
    /\ UNCHANGED <<now, monitors, results, nresults, notified, objs, jobs,
                   running_monitors, monitor_lock, nrequests, nsVars, listVars,
                   retVars, srvVars, alertVars, attempted, engineVars>>

\* ------------------------------------------------------------- reschedule_monitor
\* scheduler.py lines 186-194, 214-216: not registered
reschedule_monitor_reject(t, m) ==
    /\ FreeWorker(t)
    /\ monitor_lock = LockFree
    /\ ~Registered(m)
    /\ last' = Return(NewRequest("reschedule_monitor", m), "false")
    /\ nrequests' = nrequests + 1
    /\ UNCHANGED <<now, monitors, results, nresults, notified, objs, jobs,
                   running_monitors, monitor_lock, th, nsVars, extVars>>

\* lines 195-198: the job is popped from running_monitors, then job.cancel()
\* is called.  schedule.Job has no cancel method (jobs are cancelled with
\* schedule.cancel_job(job), as stop_monitor does), so the call raises
\* AttributeError: the with-block releases the lock and the exception leaves
\* reschedule_monitor with the old job still in schedule's job list.
reschedule_monitor_cancel(t, m) ==
    /\ FreeWorker(t)
    /\ monitor_lock = LockFree
    /\ Registered(m)
    /\ running_monitors' = [running_monitors EXCEPT ![m] = NoJob]
    /\ last' = Return(NewRequest("reschedule_monitor", m), "raised")
    /\ nrequests' = nrequests + 1
    /\ UNCHANGED <<now, monitors, results, nresults, notified, objs, jobs,
                   monitor_lock, th, nsVars, extVars>>

\* ------------------------------------------------------------- store failures
\* Database.save_monitor and save_result roll back and re-raise what the
\* session raises (database.py 79-89, 139-149), for instance sqlite3's
\* "database is locked". The actions below are the store call at which a
\* thread stands raising instead of returning.
Raised == "raised"

\* scheduler.py 147 raises: nothing in schedule_monitor catches it; the with
\* statement releases monitor_lock and the exception reaches handle_command
\* (command_handler.py 72-74), which answers with an error. The job and the
\* entry of running_monitors made at lines 137-140 stay.
schedule_monitor_save_fails(t) ==
    /\ th[t].pc = "sched_save"
    /\ monitor_lock' = LockFree
    /\ th' = [th EXCEPT ![t] = IdleThread]
    /\ last' = Return(th[t], Raised)
    /\ UNCHANGED <<now, monitors, results, nresults, notified, objs, jobs,
                   running_monitors, nrequests, nsVars, extVars>>

\* scheduler.py 180 raises: the job has been popped and cancelled (170-173),
\* the stored status is not set OFFLINE, the exception leaves stop_monitor
stop_monitor_save_fails(t) ==
    /\ th[t].pc = "stop_save"
    /\ th[t].tmp # NoObj
    /\ monitor_lock' = LockFree
    /\ th' = [th EXCEPT ![t] = IdleThread]
    /\ last' = Return(th[t], Raised)
    /\ UNCHANGED <<now, monitors, results, nresults, notified, objs, jobs,
                   running_monitors, nrequests, nsVars, extVars>>

\* scheduler.py 75 or 76 raises on a control thread: the except clause of
\* _run_monitor (90-91) logs it; what follows the failing call in the try
\* block is skipped; schedule_monitor returns True (line 154)
run_monitor_fails_control(t) ==
    /\ t \in ControlThreads
    /\ th[t].pc \in {"save_result", "save_monitor"}
    /\ monitor_lock' = LockFree
    /\ th' = [th EXCEPT ![t] = AfterSchedule(th[t])]
    /\ last' = ReturnAfterSchedule(th[t], "true")
    /\ UNCHANGED <<now, monitors, results, nresults, notified, objs, jobs,
                   running_monitors, nrequests, nsVars, extVars>>

\* the same on the tick thread, followed by Job.run's _schedule_next_run
run_monitor_fails_tick ==
    /\ th[TickThread].pc \in {"save_result", "save_monitor"}
    /\ LET j == th[TickThread].jid IN
       /\ jobs' = IF j \in DOMAIN jobs
                  THEN [jobs EXCEPT ![j] = now + objs[j].interval] ELSE jobs
       /\ th' = [th EXCEPT ![TickThread] =
                    IF th[TickThread].pending = <<>>
                    THEN [IdleThread EXCEPT !.pc = "sleep"]
                    ELSE [IdleThread EXCEPT !.pc = "pass",
                                            !.pending = th[TickThread].pending]]
       /\ objs' = Collect(objs, jobs', th')
    /\ UNCHANGED <<now, monitors, results, nresults, notified, running_monitors,
                   monitor_lock, last, nrequests, nsVars, extVars>>


\* ------------------------------------------------------------- daemon restart
\* daemon.signal_handler lines 211-215 (scheduler.stop() joins the tick thread,
\* _cleanup drains the worker pool; monitors are not stopped), then a new
\* daemon process is constructed over the same store (daemon.__init__), with
\* new system job objects (scheduler._initialize_system_jobs)
restart_daemon ==
    /\ \A t \in ControlThreads : th[t].pc = "idle"
    /\ th[TickThread].pc = "sleep"
    /\ \A r \in Runners : ~Running(r)
    /\ objs # <<>>
    /\ objs' = <<>>
    /\ jobs' = [j \in {} |-> 0]
    /\ running_monitors' = [m \in MonitorIds |-> NoJob]
    /\ last' = NoReturn
    /\ nrequests < MaxRequests
    /\ nrequests' = nrequests + 1
    /\ alert' = NewJob
    /\ runs' = [r \in Runners |-> IdleRun]
    /\ UNCHANGED <<now, monitors, results, nresults, notified, monitor_lock,
                   th, nsVars, catVars, listVars, retVars, srvVars, mail, outbox,
                   attempted, engineVars>>

\* ------------------------------------------------------------- control connections
\* _start_unix_socket_server lines 175-179: sock.accept() returns a connection
\* and it is submitted to the thread pool; connections are numbered in the
\* order of their arrival
accept(c) ==
    /\ daemon.acceptor = "accept"
    /\ daemon.pool = "open"
    /\ conns[c].pc = "none"
    /\ \A d \in ConnIds : d < c => conns[d].pc # "none"
    /\ conns' = [conns EXCEPT ![c].pc = "recv"]
    /\ daemon' = [daemon EXCEPT !.acceptor = "check"]
    /\ UNCHANGED <<schedVars, nsVars, catVars, listVars, retVars, alertVars, attempted, engineVars>>

\* lines 180-182: sock.accept() times out after one second
accept_timeout ==
    /\ daemon.acceptor = "accept"
    /\ daemon' = [daemon EXCEPT !.acceptor = "check"]
    /\ UNCHANGED <<schedVars, nsVars, catVars, listVars, retVars, alertVars, attempted, conns, engineVars>>

\* line 175: while self.running, back into sock.accept()
accept_loop ==
    /\ daemon.acceptor = "check"
    /\ daemon.running
    /\ daemon' = [daemon EXCEPT !.acceptor = "accept"]
    /\ UNCHANGED <<schedVars, nsVars, catVars, listVars, retVars, alertVars, attempted, conns, engineVars>>

\* the client closes its end of the connection before it has its response
client_disconnect(c) ==
    /\ conns[c].pc \in {"recv", "handle", "send"}
    /\ conns[c].peer
    /\ conns' = [conns EXCEPT ![c].peer = FALSE]
    /\ UNCHANGED <<schedVars, nsVars, catVars, listVars, retVars, alertVars, attempted, daemon, engineVars>>

\* _handle_connection line 192: conn.recv(4096).decode(). A closed connection
\* reads as the empty string or raises ConnectionResetError; bytes that are
\* not UTF-8 raise UnicodeDecodeError.
handle_connection_recv(c, req) ==
    /\ conns[c].pc = "recv"
    /\ ~conns[c].peer => req \in {"not_json", "undecodable"}
    /\ conns' = [conns EXCEPT ![c].data = req,
                              ![c].pc = IF req = "undecodable" THEN "except"
                                        ELSE "handle"]
    /\ UNCHANGED <<schedVars, nsVars, catVars, listVars, retVars, alertVars, attempted, daemon, engineVars>>

\* daemon.handle_command lines 148-154 and CommandHandler.handle_command
\* lines 62-74: the envelope for request data when the handler of a routed
\* request does o
Route(data, o) ==
    IF data = "not_json" THEN ErrorOf("exception")
    ELSE IF data = "not_object" THEN ErrorOf("exception")
    ELSE IF data = "unknown_action" THEN UnknownAction
    ELSE IF o = "raises" THEN ErrorOf("exception")
    ELSE HandlerEnvelope(o)

\* line 193: response = self.handle_command(data)
handle_connection_command(c, o) ==
    /\ conns[c].pc = "handle"
    /\ conns[c].data # "routed" => o = "success"
    /\ conns' = [conns EXCEPT ![c].response = Route(conns[c].data, o),
                              ![c].dispatched = (conns[c].data = "routed"),
                              ![c].pc = "send"]
    /\ UNCHANGED <<schedVars, nsVars, catVars, listVars, retVars, alertVars, attempted, daemon, engineVars>>

\* lines 194-195: conn.send(json.dumps(response).encode()); conn.close().
\* Writing to a connection the client has closed raises BrokenPipeError.
handle_connection_send(c) ==
    /\ conns[c].pc = "send"
    /\ conns' = IF conns[c].peer
                THEN [conns EXCEPT ![c].written = Append(@, conns[c].response),
                                   ![c].closed = TRUE, ![c].pc = "done"]
                ELSE [conns EXCEPT ![c].pc = "except"]
    /\ UNCHANGED <<schedVars, nsVars, catVars, listVars, retVars, alertVars, attempted, daemon, engineVars>>

\* lines 196-202: the error envelope is sent and the connection closed; if
\* that send raises too, the exception is swallowed
handle_connection_except(c) ==
    /\ conns[c].pc = "except"
    /\ conns' = IF conns[c].peer
                THEN [conns EXCEPT ![c].written = Append(@, ErrorOf("exception")),
                                   ![c].closed = TRUE, ![c].pc = "done"]
                ELSE [conns EXCEPT ![c].pc = "done"]
    /\ UNCHANGED <<schedVars, nsVars, catVars, listVars, retVars, alertVars, attempted, daemon, engineVars>>


\* ------------------------------------------------------------- shutdown
\* _start_unix_socket_server lines 179, 183-185: the connection returned by
\* sock.accept() is refused by a thread pool that has been shut down
\* (submit raises RuntimeError); nothing handles or closes it
accept_refused(c) ==
    /\ daemon.acceptor = "accept"
    /\ daemon.pool = "shutdown"
    /\ conns[c].pc = "none"
    /\ \A d \in ConnIds : d < c => conns[d].pc # "none"
    /\ conns' = [conns EXCEPT ![c].pc = "dropped"]
    /\ daemon' = [daemon EXCEPT !.acceptor = "check"]
    /\ UNCHANGED <<schedVars, nsVars, catVars, listVars, retVars, alertVars, attempted, engineVars>>

\* lines 175, 187-188: the loop ends when self.running is false; sock.close()
\* and thread_pool.shutdown(wait=False)
accept_exit ==
    /\ daemon.acceptor = "check"
    /\ ~daemon.running
    /\ daemon' = [daemon EXCEPT !.acceptor = "closed", !.pool = "shutdown"]
    /\ UNCHANGED <<schedVars, nsVars, catVars, listVars, retVars, alertVars, attempted, conns, engineVars>>

\* signal_handler lines 211-214 on SIGINT or SIGTERM: self.running = False,
\* then scheduler.stop() sets stop_event (scheduler.py line 295)
signal_handler ==
    /\ daemon.handler = "none"
    /\ daemon' = [daemon EXCEPT !.running = FALSE, !.stop_event = TRUE,
                                !.handler = "join"]
    /\ UNCHANGED <<schedVars, nsVars, catVars, listVars, retVars, alertVars, attempted, conns, engineVars>>

\* _run_scheduler line 47: the tick loop finds stop_event set after a pass
\* and its sleep, and ends
run_scheduler_exit ==
    /\ th[TickThread].pc = "sleep"
    /\ daemon.stop_event
    /\ daemon.tick_alive
    /\ daemon' = [daemon EXCEPT !.tick_alive = FALSE]
    /\ UNCHANGED <<schedVars, nsVars, catVars, listVars, retVars, alertVars, attempted, conns, engineVars>>

\* scheduler.stop line 296: scheduler_thread.join() returns; no job is
\* cancelled and running_monitors is left as it is
scheduler_stop_joined ==
    /\ daemon.handler = "join"
    /\ ~daemon.tick_alive
    /\ daemon' = [daemon EXCEPT !.handler = "unlink_socket"]
    /\ UNCHANGED <<schedVars, nsVars, catVars, listVars, retVars, alertVars, attempted, conns, engineVars>>

\* _cleanup lines 226-228: the socket file is removed
cleanup_unlink_socket ==
    /\ daemon.handler = "unlink_socket"
    /\ daemon' = [daemon EXCEPT !.socket_file = FALSE, !.handler = "remove_pid"]
    /\ UNCHANGED <<schedVars, nsVars, catVars, listVars, retVars, alertVars, attempted, conns, engineVars>>

\* _cleanup line 231: _remove_pid_file
cleanup_remove_pid_file ==
    /\ daemon.handler = "remove_pid"
    /\ daemon' = [daemon EXCEPT !.pid_file = FALSE, !.handler = "shutdown_pool"]
    /\ UNCHANGED <<schedVars, nsVars, catVars, listVars, retVars, alertVars, attempted, conns, engineVars>>

\* a connection a pool worker is still handling
InHandler(c) == conns[c].pc \in {"recv", "handle", "send", "except"}

\* _cleanup line 234: thread_pool.shutdown(wait=True) refuses new work at once
cleanup_shutdown_pool ==
    /\ daemon.handler = "shutdown_pool"
    /\ daemon' = [daemon EXCEPT !.pool = "shutdown", !.handler = "drain"]
    /\ UNCHANGED <<schedVars, nsVars, catVars, listVars, retVars, alertVars, attempted, conns, engineVars>>

\* and returns when every worker has finished; signal_handler returns
cleanup_pool_drained ==
    /\ daemon.handler = "drain"
    /\ \A c \in ConnIds : ~InHandler(c)
    /\ daemon' = [daemon EXCEPT !.handler = "done"]
    /\ UNCHANGED <<schedVars, nsVars, catVars, listVars, retVars, alertVars, attempted, conns, engineVars>>


\* ------------------------------------------------------------- health_alert
\* the query with last_healthy_at <= now() - threshold
get_unhealthy_monitors_inclusive(unhealthy_threshold_hours) ==
    LET threshold_time == now - unhealthy_threshold_hours * Hour
    IN {m \in MonitorIds :
          /\ monitors[m].stored
          /\ monitors[m].lc # NoTime
          /\ monitors[m].status # OFFLINE
          /\ \/ monitors[m].lh = NoTime
             \/ monitors[m].lh # NoTime /\ monitors[m].lh <= threshold_time}

\* MonitorRepository.get_unhealthy_monitors(session, unhealthy_threshold_hours):
\* the rows with last_checked_at IS NOT NULL, status != 'offline' and
\* last_healthy_at IS NULL or last_healthy_at < now() - threshold
get_unhealthy_monitors(unhealthy_threshold_hours) ==
    LET threshold_time == now - unhealthy_threshold_hours * Hour
    IN {m \in MonitorIds :
          /\ monitors[m].stored
          /\ monitors[m].lc # NoTime
          /\ monitors[m].status # OFFLINE
          /\ \/ monitors[m].lh = NoTime
             \/ monitors[m].lh # NoTime /\ monitors[m].lh < threshold_time}

\* HealthAlertJob._group_monitors_by_space: the keys of the grouping, and the
\* monitors grouped under one key (space_id as the query returned it)
GroupKeys(ms) == {monitors[m].space : m \in ms}
Group(ms, s) == {m \in ms : monitors[m].space = s}

\* the orders in which a dict over the keys S can be iterated (the query has
\* no ORDER BY)
Orders(S) ==
    {q \in UNION {[1..n -> S] : n \in {Cardinality(S)}} :
        \A i, j \in DOMAIN q : i # j => q[i] # q[j]}

\* the number of runs of health_alert observed, and the hours that pass
\* meanwhile
MaxAlertRuns == 2
MaxHours == 1


\* BaseJob.run lines 19-23 up to the call of execute: the scheduled run is a
\* job of the tick loop (schedule.run_pending), the manual run is
\* run_system_job_manually on a control worker
run_begin(r) ==
    /\ ~Running(r)
    /\ Started < MaxAlertRuns
    /\ r = "scheduled" => th[TickThread].pc = "sleep" /\ ~daemon.stop_event
    /\ runs' = [runs EXCEPT ![r] = [IdleRun EXCEPT !.pc = "execute",
                                                  !.n = Started + 1]]
    /\ th' = IF r = "scheduled"
             THEN [th EXCEPT ![TickThread].pc = "system_job"] ELSE th
    /\ UNCHANGED <<now, monitors, results, nresults, notified, objs, jobs,
                   running_monitors, monitor_lock, last, nrequests, nsVars,
                   catVars, listVars, retVars, srvVars, mail, outbox, alert,
                   attempted, engineVars>>

\* a run that begins when no other run of the job is in progress
run_begin_consecutive(r) ==
    /\ \A q \in Runners : ~Running(q)
    /\ run_begin(r)

\* the first run of the job object
run_begin_first(r) ==
    /\ alert.finished = 0
    /\ run_begin(r)

\* HealthAlertJob.execute lines 17-39: the configuration checks, the scan of
\* the store and the grouping
execute_scan(r) ==
    /\ runs[r].pc = "execute"
    /\ IF ~mail.enabled \/ ~mail.manager
       THEN runs' = [runs EXCEPT ![r].pc = "count_run", ![r].success = Success]
       ELSE LET unhealthy_monitors == get_unhealthy_monitors(mail.threshold_hours) IN
            IF unhealthy_monitors = {}
            THEN runs' = [runs EXCEPT ![r].pc = "count_run",
                                      ![r].success = Success, ![r].at = now]
            ELSE \E q \in Orders(GroupKeys(unhealthy_monitors)) :
                    runs' = [runs EXCEPT ![r].pc = "spaces", ![r].at = now,
                                         ![r].unhealthy_monitors = unhealthy_monitors,
                                         ![r].monitors_by_space =
                                             [s \in GroupKeys(unhealthy_monitors) |->
                                                 Group(unhealthy_monitors, s)],
                                         ![r].todo = q]
    /\ UNCHANGED <<schedVars, nsVars, catVars, listVars, retVars, srvVars, mail,
                   outbox, alert, attempted, engineVars>>

\* lines 55-57: a store call of execute raises; the job logs and returns False
execute_raises(r) ==
    /\ runs[r].pc \in {"execute", "spaces"}
    /\ mail.enabled
    /\ mail.manager
    /\ runs' = [runs EXCEPT ![r].pc = "count_run", ![r].success = Failure,
                            ![r].todo = <<>>]
    /\ UNCHANGED <<schedVars, nsVars, catVars, listVars, retVars, srvVars, mail,
                   outbox, alert, attempted, engineVars>>

\* the loop with a space left out once a digest for it is in the outbox
execute_space_once(r) ==
    /\ runs[r].pc = "spaces"
    /\ LET space_id == Head(runs[r].todo)
           listed == runs[r].monitors_by_space[space_id] IN
       /\ outbox' = IF /\ spaces[space_id].stored
                       /\ notification_emails(space_id) # {}
                       /\ \A i \in DOMAIN outbox : outbox[i].space # space_id
                    THEN Append(outbox,
                           [run |-> runs[r].n, space |-> space_id,
                            monitors |-> listed,
                            result |-> SendOutcome(notification_emails(space_id))])
                    ELSE outbox
       /\ runs' = [runs EXCEPT ![r].todo = Tail(@),
                      ![r].pc = IF Tail(runs[r].todo) = <<>> THEN "count_run" ELSE @,
                      ![r].success = IF Tail(runs[r].todo) = <<>> THEN Success ELSE @]
    /\ UNCHANGED <<schedVars, nsVars, catVars, listVars, retVars, srvVars, mail,
                   alert, attempted, engineVars>>

\* lines 43-53, one pass of the loop: get_space, then _send_health_alert for a
\* space that exists and has notification_emails (send_notification_email
\* with the monitors grouped under the space); after the last space execute
\* returns True
execute_space(r) ==
    /\ runs[r].pc = "spaces"
    /\ LET space_id == Head(runs[r].todo)
           listed == runs[r].monitors_by_space[space_id] IN
       /\ outbox' = IF spaces[space_id].stored /\ notification_emails(space_id) # {}
                    THEN Append(outbox,
                           [run |-> runs[r].n, space |-> space_id,
                            monitors |-> listed,
                            result |-> SendOutcome(notification_emails(space_id))])
                    ELSE outbox
       /\ runs' = [runs EXCEPT ![r].todo = Tail(@),
                      ![r].pc = IF Tail(runs[r].todo) = <<>> THEN "count_run" ELSE @,
                      ![r].success = IF Tail(runs[r].todo) = <<>> THEN Success ELSE @]
    /\ UNCHANGED <<schedVars, nsVars, catVars, listVars, retVars, srvVars, mail,
                   alert, attempted, engineVars>>

\* BaseJob.run line 29, self.run_count += 1: the attribute is read ...
run_load_run_count(r) ==
    /\ runs[r].pc = "count_run"
    /\ runs' = [runs EXCEPT ![r].pc = "store_run", ![r].reg = alert.run_count]
    /\ UNCHANGED <<schedVars, nsVars, catVars, listVars, retVars, srvVars, mail,
                   outbox, alert, attempted, engineVars>>

\* ... and written back incremented; lines 31-35 branch on success
run_store_run_count(r) ==
    /\ runs[r].pc = "store_run"
    /\ alert' = [alert EXCEPT !.run_count = runs[r].reg + 1]
    /\ runs' = [runs EXCEPT ![r].pc = IF runs[r].success = Success
                                      THEN "return" ELSE "count_error"]
    /\ UNCHANGED <<schedVars, nsVars, catVars, listVars, retVars, srvVars, mail,
                   outbox, attempted, engineVars>>

\* line 34, self.error_count += 1: read ...
run_load_error_count(r) ==
    /\ runs[r].pc = "count_error"
    /\ runs' = [runs EXCEPT ![r].pc = "store_error", ![r].reg = alert.error_count]
    /\ UNCHANGED <<schedVars, nsVars, catVars, listVars, retVars, srvVars, mail,
                   outbox, alert, attempted, engineVars>>

\* ... and written back incremented
run_store_error_count(r) ==
    /\ runs[r].pc = "store_error"
    /\ alert' = [alert EXCEPT !.error_count = runs[r].reg + 1]
    /\ runs' = [runs EXCEPT ![r].pc = "return"]
    /\ UNCHANGED <<schedVars, nsVars, catVars, listVars, retVars, srvVars, mail,
                   outbox, attempted, engineVars>>

\* line 37: run returns success; the tick loop goes back to sleep
run_return(r) ==
    /\ runs[r].pc = "return"
    /\ alert' = [alert EXCEPT !.finished = @ + 1,
                              !.failed = IF runs[r].success = Failure THEN @ + 1 ELSE @]
    /\ runs' = [runs EXCEPT ![r].pc = "idle", ![r].ret = runs[r].success]
    /\ th' = IF r = "scheduled"
             THEN [th EXCEPT ![TickThread].pc = "sleep"] ELSE th
    /\ UNCHANGED <<now, monitors, results, nresults, notified, objs, jobs,
                   running_monitors, monitor_lock, last, nrequests, nsVars,
                   catVars, listVars, retVars, srvVars, mail, outbox, attempted, engineVars>>

\* an hour passes
hour_passes ==
    /\ now < ScanTime + MaxHours * Hour
    /\ now' = now + Hour
    /\ UNCHANGED <<monitors, results, nresults, notified, objs, jobs,
                   running_monitors, monitor_lock, th, last, nrequests, nsVars,
                   extVars>>

\* BaseJob.run lines 25-37 in one step, for a run that no other run of the
\* job overlaps: the counters are updated and run returns success
run_finish(r) ==
    /\ runs[r].pc = "count_run"
    /\ \A q \in Runners \ {r} : ~Running(q)
    /\ alert' = [alert EXCEPT
                   !.run_count = @ + 1,
                   !.error_count = IF runs[r].success = Failure THEN @ + 1 ELSE @,
                   !.finished = @ + 1,
                   !.failed = IF runs[r].success = Failure THEN @ + 1 ELSE @]
    /\ runs' = [runs EXCEPT ![r].pc = "idle", ![r].ret = runs[r].success]
    /\ th' = IF r = "scheduled"
             THEN [th EXCEPT ![TickThread].pc = "sleep"] ELSE th
    /\ UNCHANGED <<now, monitors, results, nresults, notified, objs, jobs,
                   running_monitors, monitor_lock, last, nrequests, nsVars,
                   catVars, listVars, retVars, srvVars, mail, outbox, attempted, engineVars>>

\* the SMTP server goes down or comes back
smtp_changes ==
    /\ mail' = [mail EXCEPT !.smtp = ~@]
    /\ UNCHANGED <<schedVars, nsVars, catVars, listVars, retVars, srvVars,
                   outbox, alert, runs, attempted, engineVars>>

\* ------------------------------------------------------------- should_send_notification harness
\* a result with status s arrives and the decision is taken against the
\* previous result
ns_decide(s) ==
    /\ nsPhase = "input"
    /\ nsSteps < MaxNotifySteps
    /\ nsNew' = s
    /\ nsOut' = should_send_notification(s, nsPrev)
    /\ nsPhase' = "decided"
    /\ nsSteps' = nsSteps + 1
    /\ UNCHANGED <<nsPrev, schedVars, extVars>>

\* the result becomes the previous result of the next decision
ns_next ==
    /\ nsPhase = "decided"
    /\ nsPrev' = nsNew
    /\ nsPhase' = "input"
    /\ UNCHANGED <<nsNew, nsOut, nsSteps, schedVars, extVars>>

\* ------------------------------------------------------------- retention engine
\* the preview with UNKNOWN left out of the unhealthy count
get_cleanup_preview_unhealthy_only(keep_healthy_days, keep_unhealthy_days) ==
    LET healthy_cutoff == Today - keep_healthy_days
        unhealthy_cutoff == Today - keep_unhealthy_days
        healthy_count == CountRows(table, Older(healthy_cutoff, {HEALTHY}))
        unhealthy_count == CountRows(table, Older(unhealthy_cutoff, {UNHEALTHY}))
        total_count == CountRows(table, Classes)
    IN [healthy_to_delete |-> healthy_count,
        unhealthy_to_delete |-> unhealthy_count,
        total_to_delete |-> healthy_count + unhealthy_count,
        total_results |-> total_count,
        retention_after_cleanup |-> total_count - (healthy_count + unhealthy_count),
        healthy_cutoff_date |-> healthy_cutoff,
        unhealthy_cutoff_date |-> unhealthy_cutoff]

\* ResultRepository.get_cleanup_preview: three counts read in one session
get_cleanup_preview(keep_healthy_days, keep_unhealthy_days) ==
    LET healthy_cutoff == Today - keep_healthy_days
        unhealthy_cutoff == Today - keep_unhealthy_days
        healthy_count == CountRows(table, Older(healthy_cutoff, {HEALTHY}))
        unhealthy_count ==
            CountRows(table, Older(unhealthy_cutoff, {UNHEALTHY, UNKNOWN}))
        total_count == CountRows(table, Classes)
    IN [healthy_to_delete |-> healthy_count,
        unhealthy_to_delete |-> unhealthy_count,
        total_to_delete |-> healthy_count + unhealthy_count,
        total_results |-> total_count,
        retention_after_cleanup |-> total_count - (healthy_count + unhealthy_count),
        healthy_cutoff_date |-> healthy_cutoff,
        unhealthy_cutoff_date |-> unhealthy_cutoff]

\* SystemCommandHandler.get_cleanup_preview: the configured TTLs, as they are
system_get_cleanup_preview ==
    /\ preview' = get_cleanup_preview(cfg.keep_healthy, cfg.keep_unhealthy)
    /\ UNCHANGED <<schedVars, nsVars, catVars, listVars, table, cfg, cleanup, srvVars, alertVars, attempted, engineVars>>

\* BaseJob.run after execute returned: the counters
Finished(j, success) ==
    [j EXCEPT !.pc = "idle", !.si = 0, !.ret = IF success THEN Success ELSE Failure,
              !.run_count = @ + 1,
              !.error_count = IF success THEN @ ELSE @ + 1]

\* the job is created at startup only when data_cleanup is enabled; without
\* it run_system_job_manually answers False
run_system_job_manually_not_found ==
    /\ ~cfg.enabled
    /\ cleanup.pc = "idle"
    /\ cleanup' = [cleanup EXCEPT !.ret = Failure]
    /\ UNCHANGED <<schedVars, nsVars, catVars, listVars, table, cfg, preview, srvVars, alertVars, attempted, engineVars>>

\* the cap with >= in place of >
OverCap_inclusive(p) ==
    /\ p.total_results > 0
    /\ p.total_to_delete * 100 >= CapPercent * p.total_results

\* (total_to_delete / total_results) * 100 > 90, with total_results > 0
OverCap(p) ==
    /\ p.total_results > 0
    /\ p.total_to_delete * 100 > CapPercent * p.total_results

\* DataCleanupJob.execute up to the call of cleanup_old_results: the TTLs
\* clamped, the preview, the empty preview and the safety cap
data_cleanup_execute ==
    /\ cfg.enabled
    /\ cleanup.pc = "idle"
    /\ cleanup.run_count < MaxRuns
    /\ LET kh == IF cfg.keep_healthy < 1 THEN DefaultKeepHealthy
                 ELSE cfg.keep_healthy
           ku == IF cfg.keep_unhealthy < 1 THEN DefaultKeepUnhealthy
                 ELSE cfg.keep_unhealthy
           p == get_cleanup_preview(kh, ku)
           j == [cleanup EXCEPT !.keep_healthy = kh, !.keep_unhealthy = ku,
                                !.preview = p, !.healthy_deleted = 0,
                                !.unhealthy_deleted = 0]
       IN cleanup' =
            IF p.total_to_delete = 0 THEN Finished(j, TRUE)
            ELSE IF OverCap(p) THEN Finished(j, FALSE)
            ELSE [j EXCEPT !.pc = "cleanup", !.si = 1, !.ret = NoReturnYet]
    /\ UNCHANGED <<schedVars, nsVars, catVars, listVars, table, cfg, preview, srvVars, alertVars, attempted, engineVars>>

\* the statuses without UNKNOWN
CleanupOrder_without_unknown == <<HEALTHY, UNHEALTHY>>

\* cleanup_old_results: HEALTHY against the healthy cutoff, then UNHEALTHY
\* and UNKNOWN against the unhealthy cutoff
CleanupOrder == <<HEALTHY, UNHEALTHY, UNKNOWN>>

\* every row of the classes S leaves the table, whatever the batch size
DeleteRows_unbatched(tb, S, n) ==
    [c \in Classes |-> IF c \in S THEN 0 ELSE tb[c]]

\* the first n rows of the classes S leave the table, in timestamp order
RECURSIVE DeleteRows(_, _, _)
DeleteRows(tb, S, n) ==
    IF S = {} \/ n = 0 THEN tb
    ELSE LET c == CHOOSE x \in S : \A y \in S : x[2] <= y[2]
             d == IF tb[c] < n THEN tb[c] ELSE n
         IN DeleteRows([tb EXCEPT ![c] = @ - d], S \ {c}, n - d)

\* one turn of the loop with the unhealthy cutoff passed for every status
cleanup_results_by_status_batch_one_cutoff ==
    /\ cleanup.pc = "cleanup"
    /\ LET status == CleanupOrder[cleanup.si]
           cutoff == Today - cleanup.keep_unhealthy
           old == Older(cutoff, {status})
           found == CountRows(table, old)
           batch_count == IF found < BatchSize THEN found ELSE BatchSize
           counted == IF status = HEALTHY
                      THEN [cleanup EXCEPT !.healthy_deleted = @ + batch_count]
                      ELSE [cleanup EXCEPT !.unhealthy_deleted = @ + batch_count]
       IN /\ table' = DeleteRows(table, old, batch_count)
          /\ cleanup' =
                IF batch_count = BatchSize THEN counted
                ELSE IF cleanup.si < Len(CleanupOrder)
                     THEN [counted EXCEPT !.si = @ + 1]
                     ELSE [counted EXCEPT !.pc = "finish"]
    /\ UNCHANGED <<schedVars, nsVars, catVars, listVars, cfg, preview, srvVars, alertVars, attempted, engineVars>>

\* _cleanup_results_by_status: one turn of the loop, a batch fetched, deleted
\* and committed; a batch shorter than batch_size (or empty) ends the loop
cleanup_results_by_status_batch ==
    /\ cleanup.pc = "cleanup"
    /\ LET status == CleanupOrder[cleanup.si]
           cutoff == IF status = HEALTHY THEN Today - cleanup.keep_healthy
                     ELSE Today - cleanup.keep_unhealthy
           old == Older(cutoff, {status})
           found == CountRows(table, old)
           batch_count == IF found < BatchSize THEN found ELSE BatchSize
           counted == IF status = HEALTHY
                      THEN [cleanup EXCEPT !.healthy_deleted = @ + batch_count]
                      ELSE [cleanup EXCEPT !.unhealthy_deleted = @ + batch_count]
       IN /\ table' = DeleteRows(table, old, batch_count)
          /\ cleanup' =
                IF batch_count = BatchSize THEN counted
                ELSE IF cleanup.si < Len(CleanupOrder)
                     THEN [counted EXCEPT !.si = @ + 1]
                     ELSE [counted EXCEPT !.pc = "finish"]
    /\ UNCHANGED <<schedVars, nsVars, catVars, listVars, cfg, preview, srvVars, alertVars, attempted, engineVars>>

\* DataCleanupJob.execute after cleanup_old_results returned without errors
data_cleanup_finish ==
    /\ cleanup.pc = "finish"
    /\ cleanup' = Finished(cleanup, TRUE)
    /\ UNCHANGED <<schedVars, nsVars, catVars, listVars, table, cfg, preview, srvVars, alertVars, attempted, engineVars>>

\* a probe saves its result while the retention engine runs: a row of now
save_result_now(status) ==
    /\ nresults < MaxInserts
    /\ nresults' = nresults + 1
    /\ table' = [table EXCEPT ![<<status, Today>>] = @ + 1]
    /\ UNCHANGED <<now, monitors, results, notified, objs, jobs,
                   running_monitors, monitor_lock, th, last, nrequests,
                   nsVars, catVars, listVars, cfg, cleanup, preview, srvVars, alertVars, attempted, engineVars>>

\* ------------------------------------------------------------- specifications
\* Spec: one control-server worker, the tick loop, the clock and daemon
\* restarts (every interleaving of a control request with the tick thread).
TickWorkers == {"c1"}
TickProbers == {"c1", TickThread}

Next ==
    \/ \E t \in TickWorkers, m \in MonitorIds : start_monitor(t, m)
    \/ \E t \in TickWorkers : schedule_monitor_reject(t)
    \/ \E t \in TickWorkers : schedule_monitor_register(t)
    \/ \E t \in TickWorkers : schedule_monitor_save(t)
    \/ \E t \in TickWorkers, m \in MonitorIds : stop_monitor_reject(t, m)
    \/ \E t \in TickWorkers, m \in MonitorIds : stop_monitor_cancel(t, m)
    \/ \E t \in TickWorkers : stop_monitor_get(t)
    \/ \E t \in TickWorkers : stop_monitor_save(t)
    \/ \E t \in TickWorkers, m \in MonitorIds, iv \in UpdateIntervals : update_monitor(t, m, iv)
    \/ \E t \in TickWorkers : update_monitor_list(t)
    \/ \E t \in TickWorkers : update_monitor_save(t)
    \/ \E t \in TickWorkers, s \in SpaceIds : stop_all_monitors_in_space_enter(t, s)
    \/ \E t \in TickWorkers : stop_all_monitors_in_space_step(t)
    \/ \E t \in TickWorkers : stop_all_monitors_in_space_exit(t)
    \/ \E t \in TickWorkers : run_monitor_finish_control(t)
    \/ \E t \in TickProbers, s \in ProbeStatus : run_monitor_check(t, s)
    \/ \E t \in TickProbers : run_monitor_prev(t)
    \/ \E t \in TickProbers : run_monitor_save_result(t)
    \/ run_monitor_finish_tick
    \/ tick_run_pending
    \/ tick_run_job
    \/ advance_clock
    \/ restart_daemon

Spec == Init /\ [][Next]_vars

\* SpecReschedule: Spec with callers of scheduler.reschedule_monitor (no
\* handler of the daemon calls it; it is part of the scheduler's interface).
NextReschedule ==
    \/ Next
    \/ \E t \in TickWorkers, m \in MonitorIds : reschedule_monitor_reject(t, m)
    \/ \E t \in TickWorkers, m \in MonitorIds : reschedule_monitor_cancel(t, m)

SpecReschedule == Init /\ [][NextReschedule]_vars

\* SpecWorkers: two control-server workers handling requests concurrently,
\* with the tick loop idle (every interleaving of two control requests), over
\* every assignment of the two stored monitors to spaces.
InitWorkers ==
    /\ InitScheduler
    /\ AllSpaces
    /\ NoRetention
    /\ NoServer
    /\ NoEngine
    /\ NoAlerts
    /\ \E sp \in [MonitorIds -> SpaceIds] : monitors = InitMonitors(sp)
    /\ InitHarness

NextWorkers ==
    \/ \E t \in ControlThreads, s \in SpaceIds : start_all_monitors_in_space_read(t, s)
    \/ \E t \in ControlThreads : start_all_monitors_in_space_filter(t)
    \/ \E t \in ControlThreads, m \in MonitorIds : start_monitor(t, m)
    \/ \E t \in ControlThreads : schedule_monitor_reject(t)
    \/ \E t \in ControlThreads : schedule_monitor_register(t)
    \/ \E t \in ControlThreads : schedule_monitor_save(t)
    \/ \E t \in ControlThreads, m \in MonitorIds : stop_monitor_reject(t, m)
    \/ \E t \in ControlThreads, m \in MonitorIds : stop_monitor_cancel(t, m)
    \/ \E t \in ControlThreads : stop_monitor_get(t)
    \/ \E t \in ControlThreads : stop_monitor_save(t)
    \/ \E t \in ControlThreads, m \in MonitorIds, iv \in UpdateIntervals : update_monitor(t, m, iv)
    \/ \E t \in ControlThreads : update_monitor_list(t)
    \/ \E t \in ControlThreads : update_monitor_save(t)
    \/ \E t \in ControlThreads, s \in SpaceIds : stop_all_monitors_in_space_enter(t, s)
    \/ \E t \in ControlThreads : stop_all_monitors_in_space_step(t)
    \/ \E t \in ControlThreads : stop_all_monitors_in_space_exit(t)
    \/ \E t \in ControlThreads : run_monitor_finish_control(t)
    \/ \E t \in ControlThreads, s \in ProbeStatus : run_monitor_check(t, s)
    \/ \E t \in ControlThreads : run_monitor_prev(t)
    \/ \E t \in ControlThreads : run_monitor_save_result(t)

SpecWorkers == InitWorkers /\ [][NextWorkers]_vars

\* SpecList: SpecWorkers with callers of scheduler.list_running_monitors with
\* every combination of its two optional arguments.
NextList ==
    \/ NextWorkers
    \/ \E t \in ControlThreads, sp \in SpaceIds \cup {NoFilter},
          ty \in MonitorTypes \cup {NoFilter} : list_running_monitors(t, sp, ty)

SpecList == InitWorkers /\ [][NextList]_vars

\* SpecStopAll: SpecWorkers with callers of scheduler.stop_all_monitors (no
\* handler of the daemon calls it; it is part of the scheduler's interface).
NextStopAll ==
    \/ NextWorkers
    \/ \E t \in ControlThreads : stop_all_monitors_enter(t)
    \/ \E t \in ControlThreads : stop_all_monitors_step(t)
    \/ \E t \in ControlThreads : stop_all_monitors_exit(t)

SpecStopAll == InitWorkers /\ [][NextStopAll]_vars

\* SpecCleanup: runs of the data_cleanup job with probes saving results
\* meanwhile, over stores of a group of healthy results of one age, a group of
\* unhealthy or unknown results of one age, and recent healthy results.
InitCleanup ==
    /\ InitScheduler
    /\ AllSpaces
    /\ monitors = InitMonitors([m \in MonitorIds |-> InitialSpace(m)])
    /\ InitHarness
    /\ \E hs \in Stamps, hc \in Counts, us \in {UNHEALTHY, UNKNOWN},
          ust \in Stamps, uc \in Counts, rc \in Counts :
          table = [c \in Classes |->
                     (IF c = <<HEALTHY, hs>> THEN hc ELSE 0)
                       + (IF c = <<us, ust>> THEN uc ELSE 0)
                       + (IF c = <<HEALTHY, Today>> THEN rc ELSE 0)]
    /\ cfg \in Configs
    /\ cleanup = IdleCleanup
    /\ preview = NoPreview
    /\ NoServer
    /\ NoEngine
    /\ NoAlerts

NextCleanup ==
    \/ data_cleanup_execute
    \/ cleanup_results_by_status_batch
    \/ data_cleanup_finish
    \/ run_system_job_manually_not_found
    \/ \E status \in ProbeStatus : save_result_now(status)

SpecCleanup == InitCleanup /\ [][NextCleanup]_vars

\* SpecCleanupFair: SpecCleanup with the loop of _cleanup_results_by_status
\* and the return of the job going on whenever they can (the run is one call
\* on one thread, which nothing suspends for ever).
SpecCleanupFair ==
    /\ InitCleanup
    /\ [][NextCleanup]_vars
    /\ WF_vars(cleanup_results_by_status_batch)
    /\ WF_vars(data_cleanup_finish)

\* SpecPreview: the get_cleanup_preview command over the same stores and
\* configurations, with probes saving results meanwhile.
NextPreview ==
    \/ system_get_cleanup_preview
    \/ \E status \in ProbeStatus : save_result_now(status)

SpecPreview == InitCleanup /\ [][NextPreview]_vars

\* SpecCatalog: two control-server workers handling create, rename, delete
\* and start requests concurrently. Monitor m1 is stored in space s1; m2 is
\* stored in s1 too or its id is still unused; s2 is stored or its id is still
\* unused.
UnusedMonitor(row) == [row EXCEPT !.stored = FALSE, !.created = NoTime,
                                  !.name = NoName, !.space = "none"]
UnusedSpace == [stored |-> FALSE, name |-> NoName]

InitCatalog ==
    /\ InitScheduler
    /\ NoRetention
    /\ NoServer
    /\ NoEngine
    /\ NoAlerts
    /\ InitHarness
    /\ \E two \in BOOLEAN :
          LET all == InitMonitors([m \in MonitorIds |-> "s1"])
          IN monitors = IF two THEN all
                        ELSE [all EXCEPT !["m2"] = UnusedMonitor(@)]
    /\ \E two \in BOOLEAN :
          spaces = [s \in SpaceIds |->
                      IF s = "s1" \/ two THEN [stored |-> TRUE, name |-> s]
                      ELSE UnusedSpace]

NextCatalog ==
    \/ \E t \in ControlThreads, m \in MonitorIds : start_monitor(t, m)
    \/ \E t \in ControlThreads, m \in MonitorIds : start_monitor_not_found(t, m)
    \/ \E t \in ControlThreads : schedule_monitor_reject(t)
    \/ \E t \in ControlThreads : schedule_monitor_register(t)
    \/ \E t \in ControlThreads : schedule_monitor_save(t)
    \/ \E t \in ControlThreads, s \in ProbeStatus : run_monitor_check(t, s)
    \/ \E t \in ControlThreads : run_monitor_prev(t)
    \/ \E t \in ControlThreads : run_monitor_save_result(t)
    \/ \E t \in ControlThreads : run_monitor_finish_control(t)
    \/ \E t \in ControlThreads, m \in MonitorIds : stop_monitor_reject(t, m)
    \/ \E t \in ControlThreads, m \in MonitorIds : stop_monitor_cancel(t, m)
    \/ \E t \in ControlThreads : stop_monitor_get(t)
    \/ \E t \in ControlThreads : stop_monitor_save(t)
    \/ \E t \in ControlThreads : stop_all_monitors_in_space_step(t)
    \/ \E t \in ControlThreads : stop_all_monitors_in_space_exit(t)
    \/ \E t \in ControlThreads, m \in MonitorIds, s \in SpaceIds, n \in Names :
          create_monitor(t, m, s, n)
    \/ \E t \in ControlThreads : create_monitor_save(t)
    \/ \E t \in ControlThreads, m \in MonitorIds, n \in Names :
          update_monitor_name(t, m, n)
    \/ \E t \in ControlThreads : update_monitor_list(t)
    \/ \E t \in ControlThreads : update_monitor_check_name(t)
    \/ \E t \in ControlThreads : update_monitor_save(t)
    \/ \E t \in ControlThreads, m \in MonitorIds : delete_monitor(t, m)
    \/ \E t \in ControlThreads : delete_monitor_row(t)
    \/ \E t \in ControlThreads, s \in SpaceIds : delete_space(t, s)
    \/ \E t \in ControlThreads : delete_space_list(t)
    \/ \E t \in ControlThreads : delete_space_delete_monitor(t)
    \/ \E t \in ControlThreads : delete_space_row(t)
    \/ \E t \in ControlThreads, s \in SpaceIds, n \in SpaceIds : create_space(t, s, n)
    \/ \E t \in ControlThreads, s \in SpaceIds, n \in SpaceIds : update_space(t, s, n)
    \/ \E t \in ControlThreads : save_space(t)

SpecCatalog == InitCatalog /\ [][NextCatalog]_vars

\* SpecSequential: the requests of SpecCatalog handled one after the other by
\* a single control-server worker, so that what a handler has read at its
\* start is still what is stored when it answers.
Sequential == {"c1"}

NextSequential ==
    \/ \E t \in Sequential, m \in MonitorIds : start_monitor(t, m)
    \/ \E t \in Sequential, m \in MonitorIds : start_monitor_not_found(t, m)
    \/ \E t \in Sequential : schedule_monitor_reject(t)
    \/ \E t \in Sequential : schedule_monitor_register(t)
    \/ \E t \in Sequential : schedule_monitor_save(t)
    \/ \E t \in Sequential, s \in ProbeStatus : run_monitor_check(t, s)
    \/ \E t \in Sequential : run_monitor_prev(t)
    \/ \E t \in Sequential : run_monitor_save_result(t)
    \/ \E t \in Sequential : run_monitor_finish_control(t)
    \/ \E t \in Sequential, m \in MonitorIds : stop_monitor_reject(t, m)
    \/ \E t \in Sequential, m \in MonitorIds : stop_monitor_cancel(t, m)
    \/ \E t \in Sequential : stop_monitor_get(t)
    \/ \E t \in Sequential : stop_monitor_save(t)
    \/ \E t \in Sequential : stop_all_monitors_in_space_step(t)
    \/ \E t \in Sequential : stop_all_monitors_in_space_exit(t)
    \/ \E t \in Sequential, m \in MonitorIds, s \in SpaceIds, n \in Names :
          create_monitor(t, m, s, n)
    \/ \E t \in Sequential : create_monitor_save(t)
    \/ \E t \in Sequential, m \in MonitorIds, n \in Names :
          update_monitor_name(t, m, n)
    \/ \E t \in Sequential : update_monitor_list(t)
    \/ \E t \in Sequential : update_monitor_check_name(t)
    \/ \E t \in Sequential : update_monitor_save(t)
    \/ \E t \in Sequential, m \in MonitorIds : delete_monitor(t, m)
    \/ \E t \in Sequential : delete_monitor_row(t)
    \/ \E t \in Sequential, s \in SpaceIds : delete_space(t, s)
    \/ \E t \in Sequential : delete_space_list(t)
    \/ \E t \in Sequential : delete_space_delete_monitor(t)
    \/ \E t \in Sequential : delete_space_row(t)
    \/ \E t \in Sequential, s \in SpaceIds, n \in SpaceIds : create_space(t, s, n)
    \/ \E t \in Sequential, s \in SpaceIds, n \in SpaceIds : update_space(t, s, n)
    \/ \E t \in Sequential : save_space(t)

SpecSequential == InitCatalog /\ [][NextSequential]_vars

\* SpecControl: the control server from its start to its shutdown: connections
\* are accepted and handled by the pool workers, each with any request and
\* any handler outcome, and at any moment SIGINT or SIGTERM arrives. No
\* monitor is running.
NextControl ==
    \/ \E c \in ConnIds : accept(c)
    \/ \E c \in ConnIds : accept_refused(c)
    \/ accept_timeout
    \/ accept_loop
    \/ accept_exit
    \/ \E c \in ConnIds : client_disconnect(c)
    \/ \E c \in ConnIds, req \in Requests : handle_connection_recv(c, req)
    \/ \E c \in ConnIds, o \in HandlerOutcomes : handle_connection_command(c, o)
    \/ \E c \in ConnIds : handle_connection_send(c)
    \/ \E c \in ConnIds : handle_connection_except(c)
    \/ signal_handler
    \/ run_scheduler_exit
    \/ scheduler_stop_joined
    \/ cleanup_unlink_socket
    \/ cleanup_remove_pid_file
    \/ cleanup_shutdown_pool
    \/ cleanup_pool_drained

InitControl == InitDaemon /\ InitHarness

SpecControl == InitControl /\ [][NextControl]_vars

\* SpecControlFair: SpecControl with every step of the daemon taken whenever
\* it can be: a pool worker that has its request handles it and answers, and
\* the accept loop goes on; recv returns once the client has closed its end.
\* What a client does (sending its request, closing its end) is up to the
\* client and is not required to happen.
SpecControlFair ==
    /\ InitControl
    /\ [][NextControl]_vars
    /\ \A c \in ConnIds :
          /\ WF_vars(~conns[c].peer /\ \E req \in Requests : handle_connection_recv(c, req))
          /\ WF_vars(\E o \in HandlerOutcomes : handle_connection_command(c, o))
          /\ WF_vars(handle_connection_send(c))
          /\ WF_vars(handle_connection_except(c))
    /\ WF_vars(accept_loop)
    /\ WF_vars(accept_exit)
    /\ WF_vars(run_scheduler_exit)
    /\ WF_vars(scheduler_stop_joined)
    /\ WF_vars(cleanup_unlink_socket)
    /\ WF_vars(cleanup_remove_pid_file)
    /\ WF_vars(cleanup_shutdown_pool)
    /\ WF_vars(cleanup_pool_drained)


\* SpecShutdown: the daemon in operation receives SIGINT or SIGTERM. Monitor
\* m1, or m1 and then m2, was started at time 0 and its first probe has been
\* stored; the tick loop runs the jobs, clients connect and are answered, and
\* at any moment the signal arrives.
StartedAtZero(m, s) ==
    [id |-> m, status |-> s, lc |-> 0, lh |-> IF s = HEALTHY THEN 0 ELSE NoTime,
     interval |-> InitialInterval(m), name |-> InitialName(m),
     space |-> InitialSpace(m)]

StartOrder == <<"m1", "m2">>

InitOperating ==
    /\ now = 0
    /\ listing = [space |-> NoFilter, type |-> NoFilter, ids |-> {}]
    /\ monitor_lock = LockFree
    /\ th = [t \in Threads |->
               IF t = TickThread THEN [IdleThread EXCEPT !.pc = "sleep"]
               ELSE IdleThread]
    /\ last = NoReturn
    /\ nrequests = 0
    /\ AllSpaces
    /\ NoRetention
    /\ NoServer
    /\ NoEngine
    /\ NoAlerts
    /\ InitHarness
    /\ \E n \in 1..MaxJobs, st \in [MonitorIds -> ProbeStatus] :
          LET started == {StartOrder[j] : j \in 1..n}
              first == [m \in MonitorIds |-> InitMonitors([x \in MonitorIds |->
                                                InitialSpace(x)])[m]]
          IN /\ objs = [j \in 1..n |-> StartedAtZero(StartOrder[j], st[StartOrder[j]])]
             /\ jobs = [j \in 1..n |-> InitialInterval(StartOrder[j])]
             /\ running_monitors =
                   [m \in MonitorIds |->
                      IF m \in started
                      THEN CHOOSE j \in 1..n : StartOrder[j] = m ELSE NoJob]
             /\ monitors =
                   [m \in MonitorIds |->
                      IF m \in started
                      THEN SaveRow(first[m], StartedAtZero(m, st[m])) ELSE first[m]]
             /\ results = [j \in 1..n |->
                             [mid |-> StartOrder[j], status |-> st[StartOrder[j]],
                              ts |-> j]]
             /\ nresults = n
             /\ notified = {j \in 1..n :
                              /\ should_send_notification(st[StartOrder[j]], NoStatus)
                              /\ notification_emails(InitialSpace(StartOrder[j])) # {}}
             /\ attempted = notified

\* the requests clients send while the daemon shuts down
ShutdownRequests == {"unknown_action"}

NextShutdown ==
    \/ tick_run_pending
    \/ tick_run_job
    \/ \E s \in ProbeStatus : run_monitor_check(TickThread, s)
    \/ run_monitor_prev(TickThread)
    \/ run_monitor_save_result(TickThread)
    \/ run_monitor_finish_tick
    \/ advance_clock
    \/ \E c \in ConnIds : accept(c)
    \/ \E c \in ConnIds : accept_refused(c)
    \/ accept_timeout
    \/ accept_loop
    \/ accept_exit
    \/ \E c \in ConnIds, req \in ShutdownRequests : handle_connection_recv(c, req)
    \/ \E c \in ConnIds : handle_connection_command(c, "success")
    \/ \E c \in ConnIds : handle_connection_send(c)
    \/ signal_handler
    \/ run_scheduler_exit
    \/ scheduler_stop_joined
    \/ cleanup_unlink_socket
    \/ cleanup_remove_pid_file
    \/ cleanup_shutdown_pool
    \/ cleanup_pool_drained

SpecShutdown == InitOperating /\ [][NextShutdown]_vars


\* SpecPass: the daemon in operation with m1, or m1 and m2, scheduled; the
\* tick loop runs the due jobs pass by pass while one control worker stops
\* monitors, one at a time or a space at a time.
NextPass ==
    \/ tick_run_pending
    \/ tick_run_job
    \/ \E s \in ProbeStatus : run_monitor_check(TickThread, s)
    \/ run_monitor_prev(TickThread)
    \/ run_monitor_save_result(TickThread)
    \/ run_monitor_finish_tick
    \/ advance_clock
    \/ \E t \in Sequential, m \in MonitorIds : stop_monitor_reject(t, m)
    \/ \E t \in Sequential, m \in MonitorIds : stop_monitor_cancel(t, m)
    \/ \E t \in Sequential : stop_monitor_get(t)
    \/ \E t \in Sequential : stop_monitor_save(t)
    \/ \E t \in Sequential, s \in SpaceIds : stop_all_monitors_in_space_enter(t, s)
    \/ \E t \in Sequential : stop_all_monitors_in_space_step(t)
    \/ \E t \in Sequential : stop_all_monitors_in_space_exit(t)

SpecPass == InitOperating /\ [][NextPass]_vars


\* SpecQuery: get_unhealthy_monitors over every stored combination of status,
\* last_checked_at and last_healthy_at, scanned by manual runs of health_alert
\* at ScanTime with the thresholds 0, 1 and 24 hours.
RowTimes == {0, Hour, ScanTime}
Thresholds == {0, 1, DefaultThresholdHours}

\* the status and timestamps a stored monitor can have: a monitor never
\* probed is OFFLINE (created) or UNKNOWN (just scheduled); last_healthy_at
\* is the time of a probe; after a HEALTHY probe it is last_checked_at, after
\* an UNHEALTHY probe it is older or null
CheckedRows ==
    {r \in [status : MonitorStatus, lc : RowTimes \cup {NoTime},
            lh : RowTimes \cup {NoTime}] :
        /\ r.lc = NoTime => r.lh = NoTime /\ r.status \in {OFFLINE, UNKNOWN}
        /\ r.lh # NoTime => r.lh <= r.lc
        /\ r.status = HEALTHY => r.lh = r.lc
        /\ r.status = UNHEALTHY => r.lh # r.lc}

\* the store with the monitors in the spaces sp and with the fields rows
StoreOf(sp, rows) ==
    [m \in MonitorIds |->
        [InitMonitors(sp)[m] EXCEPT !.status = rows[m].status,
                                    !.lc = rows[m].lc, !.lh = rows[m].lh]]

\* the scheduler of a daemon that runs no monitor, at time t
IdleScheduler(t) ==
    /\ now = t
    /\ listing = [space |-> NoFilter, type |-> NoFilter, ids |-> {}]
    /\ results = <<>>
    /\ nresults = 0
    /\ notified = {}
    /\ attempted = {}
    /\ objs = <<>>
    /\ jobs = [j \in {} |-> 0]
    /\ running_monitors = [m \in MonitorIds |-> NoJob]
    /\ monitor_lock = LockFree
    /\ th = [t2 \in Threads |->
               IF t2 = TickThread THEN [IdleThread EXCEPT !.pc = "sleep"]
               ELSE IdleThread]
    /\ last = NoReturn
    /\ nrequests = 0

InitQuery ==
    /\ IdleScheduler(ScanTime)
    /\ AllSpaces
    /\ NoRetention
    /\ NoServer
    /\ NoEngine
    /\ InitHarness
    /\ \E rows \in [MonitorIds -> CheckedRows] :
          monitors = StoreOf([m \in MonitorIds |-> InitialSpace(m)], rows)
    /\ \E h \in Thresholds : mail = [ConfiguredMail EXCEPT !.threshold_hours = h]
    /\ outbox = <<>>
    /\ alert = NewJob
    /\ runs = [r \in Runners |-> IdleRun]

Manual == "manual"

NextQuery ==
    \/ run_begin(Manual)
    \/ execute_scan(Manual)
    \/ execute_space(Manual)
    \/ run_finish(Manual)

SpecQuery == InitQuery /\ [][NextQuery]_vars


\* SpecAlert: consecutive runs of health_alert, scheduled and manual, over a
\* store that is not changed meanwhile, under each configuration of the two
\* email settings, with an SMTP server that comes and goes, while time passes.
\* The monitors: never probed; unhealthy and never healthy; unhealthy and last
\* healthy two hours ago, one hour ago; healthy.
AlertRows ==
    {[status |-> OFFLINE, lc |-> NoTime, lh |-> NoTime],
     [status |-> UNHEALTHY, lc |-> ScanTime, lh |-> NoTime],
     [status |-> UNHEALTHY, lc |-> ScanTime, lh |-> 0],
     [status |-> UNHEALTHY, lc |-> ScanTime, lh |-> Hour],
     [status |-> HEALTHY, lc |-> ScanTime, lh |-> ScanTime]}

\* both monitors in the space with notification_emails, or one in each space
SpaceMaps ==
    {[m \in MonitorIds |-> "s1"], [m \in MonitorIds |-> InitialSpace(m)]}

\* configured in both places (threshold 24 hours and 1 hour); configured with
\* the command-line client only (webmonitor_config.json); email_config.json
\* only; email_config.json without password, without username; nothing
\* configured; health alerts disabled
MailConfigs ==
    {ConfiguredMail,
     [ConfiguredMail EXCEPT !.threshold_hours = 1],
     [ConfiguredMail EXCEPT !.username = FALSE, !.password = FALSE],
     [ConfiguredMail EXCEPT !.manager = FALSE],
     [ConfiguredMail EXCEPT !.password = FALSE],
     [ConfiguredMail EXCEPT !.username = FALSE],
     [ConfiguredMail EXCEPT !.manager = FALSE, !.username = FALSE,
                            !.password = FALSE],
     [ConfiguredMail EXCEPT !.enabled = FALSE]}

InitAlert ==
    /\ IdleScheduler(ScanTime)
    /\ AllSpaces
    /\ NoRetention
    /\ NoServer
    /\ NoEngine
    /\ InitHarness
    /\ \E rows \in [MonitorIds -> AlertRows], sp \in SpaceMaps :
          monitors = StoreOf(sp, rows)
    /\ mail \in MailConfigs
    /\ outbox = <<>>
    /\ alert = NewJob
    /\ runs = [r \in Runners |-> IdleRun]

NextAlert ==
    \/ \E r \in Runners : run_begin_consecutive(r)
    \/ \E r \in Runners : execute_scan(r)
    \/ \E r \in Runners : execute_raises(r)
    \/ \E r \in Runners : execute_space(r)
    \/ \E r \in Runners : run_finish(r)
    \/ smtp_changes
    \/ hour_passes

SpecAlert == InitAlert /\ [][NextAlert]_vars


\* SpecWatch: one control worker starts monitor m1, the tick loop probes it,
\* the daemon may be restarted, and health_alert is run by hand.
Watched == {"m1"}

InitWatch ==
    /\ InitScheduler
    /\ AllSpaces
    /\ NoRetention
    /\ NoServer
    /\ NoEngine
    /\ InitHarness
    /\ monitors = InitMonitors([m \in MonitorIds |-> InitialSpace(m)])
    /\ NoAlerts

NextWatch ==
    \/ \E t \in Sequential, m \in Watched : start_monitor(t, m)
    \/ \E t \in Sequential : schedule_monitor_reject(t)
    \/ \E t \in Sequential : schedule_monitor_register(t)
    \/ \E t \in Sequential : schedule_monitor_save(t)
    \/ \E t \in TickProbers, s \in ProbeStatus : run_monitor_check(t, s)
    \/ \E t \in TickProbers : run_monitor_prev(t)
    \/ \E t \in TickProbers : run_monitor_save_result(t)
    \/ \E t \in Sequential : run_monitor_finish_control(t)
    \/ run_monitor_finish_tick
    \/ tick_run_pending
    \/ advance_clock
    \/ restart_daemon
    \/ run_begin_first(Manual)
    \/ execute_scan(Manual)
    \/ execute_space(Manual)
    \/ run_finish(Manual)

SpecWatch == InitWatch /\ [][NextWatch]_vars

\* SpecMail: one control worker starts monitor m1, the tick loop probes it
\* and health_alert is run by hand, with email configured in both places, in
\* webmonitor_config.json only (no credentials in the email service), without
\* the password in the email service, and in email_config.json only.
MailSettings ==
    {ConfiguredMail,
     [ConfiguredMail EXCEPT !.username = FALSE, !.password = FALSE],
     [ConfiguredMail EXCEPT !.password = FALSE],
     [ConfiguredMail EXCEPT !.manager = FALSE]}

InitMail ==
    /\ InitScheduler
    /\ AllSpaces
    /\ NoRetention
    /\ NoServer
    /\ NoEngine
    /\ InitHarness
    /\ monitors = InitMonitors([m \in MonitorIds |-> InitialSpace(m)])
    /\ mail \in MailSettings
    /\ outbox = <<>>
    /\ alert = NewJob
    /\ runs = [r \in Runners |-> IdleRun]

NextMail ==
    \/ \E t \in Sequential, m \in Watched : start_monitor(t, m)
    \/ \E t \in Sequential : schedule_monitor_reject(t)
    \/ \E t \in Sequential : schedule_monitor_register(t)
    \/ \E t \in Sequential : schedule_monitor_save(t)
    \/ \E t \in TickProbers, s \in ProbeStatus : run_monitor_check(t, s)
    \/ \E t \in TickProbers : run_monitor_prev(t)
    \/ \E t \in TickProbers : run_monitor_save_result(t)
    \/ \E t \in Sequential : run_monitor_finish_control(t)
    \/ run_monitor_finish_tick
    \/ tick_run_pending
    \/ advance_clock
    \/ run_begin_first(Manual)
    \/ execute_scan(Manual)
    \/ execute_space(Manual)
    \/ run_finish(Manual)

SpecMail == InitMail /\ [][NextMail]_vars

\* SpecSmtp: the same with email configured in both places and an SMTP server
\* that comes and goes.
NextSmtp ==
    \/ NextMail
    \/ smtp_changes

SpecSmtp == InitWatch /\ [][NextSmtp]_vars


\* SpecCounters: runs of health_alert on the tick loop and on a control worker,
\* which may overlap, over a store in which monitor m1 of space s1 is
\* unhealthy and was never healthy; a store call of a run may fail.
InitCounters ==
    /\ IdleScheduler(ScanTime)
    /\ AllSpaces
    /\ NoRetention
    /\ NoServer
    /\ NoEngine
    /\ NoAlerts
    /\ InitHarness
    /\ monitors = StoreOf([m \in MonitorIds |-> InitialSpace(m)],
                          [m \in MonitorIds |->
                              IF m = "m1"
                              THEN [status |-> UNHEALTHY, lc |-> ScanTime, lh |-> NoTime]
                              ELSE [status |-> OFFLINE, lc |-> NoTime, lh |-> NoTime]])

NextCounters ==
    \/ \E r \in Runners : run_begin(r)
    \/ \E r \in Runners : execute_scan(r)
    \/ \E r \in Runners : execute_raises(r)
    \/ \E r \in Runners : execute_space(r)
    \/ \E r \in Runners : run_load_run_count(r)
    \/ \E r \in Runners : run_store_run_count(r)
    \/ \E r \in Runners : run_load_error_count(r)
    \/ \E r \in Runners : run_store_error_count(r)
    \/ \E r \in Runners : run_return(r)

SpecCounters == InitCounters /\ [][NextCounters]_vars


\* SpecProbe: one execution of check_url or of check_db, for every setting of
\* the monitor that changes a branch and every answer of the other side.
InitProbe ==
    /\ IdleScheduler(0)
    /\ AllSpaces
    /\ NoRetention
    /\ conns = [c \in ConnIds |-> IdleConn]
    /\ daemon = RunningDaemon
    /\ NoAlerts
    /\ InitHarness
    /\ monitors = InitMonitors([m \in MonitorIds |-> InitialSpace(m)])
    /\ NoEngine

NextProbe ==
    \/ check_url_begin
    \/ check_url_get
    \/ check_url_status_code
    \/ check_url_content
    \/ check_url_ssl
    \/ check_db_begin
    \/ check_db_create_engine
    \/ check_db_connect
    \/ check_db_query
    \/ check_db_close
    \/ check_return

SpecProbe == InitProbe /\ [][NextProbe]_vars


\* SpecFaults: one control worker starts and stops monitor m1 while the tick
\* loop probes it, and any store write of the scheduler may fail.
NextFaults ==
    \/ \E t \in Sequential, m \in Watched : start_monitor(t, m)
    \/ \E t \in Sequential : schedule_monitor_reject(t)
    \/ \E t \in Sequential : schedule_monitor_register(t)
    \/ \E t \in Sequential : schedule_monitor_save(t)
    \/ \E t \in Sequential : schedule_monitor_save_fails(t)
    \/ \E t \in Sequential, m \in Watched : stop_monitor_reject(t, m)
    \/ \E t \in Sequential, m \in Watched : stop_monitor_cancel(t, m)
    \/ \E t \in Sequential : stop_monitor_get(t)
    \/ \E t \in Sequential : stop_monitor_save(t)
    \/ \E t \in Sequential : stop_monitor_save_fails(t)
    \/ \E t \in TickProbers, s \in ProbeStatus : run_monitor_check(t, s)
    \/ \E t \in TickProbers : run_monitor_prev(t)
    \/ \E t \in TickProbers : run_monitor_save_result(t)
    \/ \E t \in Sequential : run_monitor_finish_control(t)
    \/ \E t \in Sequential : run_monitor_fails_control(t)
    \/ run_monitor_finish_tick
    \/ run_monitor_fails_tick
    \/ tick_run_pending
    \/ advance_clock

SpecFaults == InitWatch /\ [][NextFaults]_vars


\* SpecNotify: should_send_notification applied to every pair of a new status
\* and a previous status (or no previous result).
InitNotify ==
    /\ InitDaemon
    /\ nsPrev \in MonitorStatus \cup {NoStatus}
    /\ nsNew = NoStatus
    /\ nsOut = FALSE
    /\ nsPhase = "input"
    /\ nsSteps = 0

NextNotify ==
    \/ \E s \in MonitorStatus : ns_decide(s)
    \/ ns_next

SpecNotify == InitNotify /\ [][NextNotify]_vars

\* ------------------------------------------------------------- properties
\* the control threads that are inside a request on monitor m (or on its space)
Busy(t, m) == th[t].pc # "idle" /\ (th[t].m = m \/ th[t].m = SpaceOf(m))
Quiescent(m) == \A t \in ControlThreads : ~Busy(t, m)

\* the jobs in schedule's job list that run monitor m
JobsOf(js, os, m) == {j \in DOMAIN js : os[j].id = m}

\* C1: whenever no schedule/stop/reschedule call for a monitor is in progress,
\* its stored status is OFFLINE exactly when it is not in the running table.
C1_OfflineIffNotRunning ==
    \A m \in MonitorIds :
        Quiescent(m) => (monitors[m].status = OFFLINE <=> ~Registered(m))

\* C2: at no time are two executions of _run_monitor for the same monitor id
\* in progress.
C2_ProbeNonReentrant ==
    \A m \in MonitorIds :
        Cardinality({t \in Threads : InProbe(t) /\ objs[th[t].jid].id = m}) <= 1

\* the stored results of monitor m in timestamp order
RECURSIVE ByTimestamp(_)
ByTimestamp(S) ==
    IF S = {} THEN <<>>
    ELSE LET i == CHOOSE k \in S : \A l \in S : results[k].ts <= results[l].ts
         IN <<results[i]>> \o ByTimestamp(S \ {i})
ResultsOf(m) == ByTimestamp({i \in 1..Len(results) : results[i].mid = m})

\* C3: for a monitor whose space has notification emails, once its probe
\* executions have completed, a result that follows another result of the
\* monitor has been notified exactly when the two statuses differ.
C3_NotifyOncePerTransition ==
    \A m \in MonitorIds :
        (/\ notification_emails(SpaceOf(m)) # {}
         /\ \A t \in Threads : ~(InProbe(t) /\ objs[th[t].jid].id = m))
        => LET rs == ResultsOf(m) IN
           \A i \in 2..Len(rs) :
               (rs[i].ts \in notified) <=> (rs[i].status # rs[i-1].status)

C5_LastHealthyMonotone ==
    [][\A m \in MonitorIds :
          /\ monitors'[m].lh >= monitors[m].lh
          /\ monitors'[m].lh # monitors[m].lh =>
                \E t \in Threads :
                    /\ th[t].pc = "save_monitor"
                    /\ th'[t].pc # "save_monitor"
                    /\ th[t].res.mid = m
                    /\ th[t].res.status = HEALTHY]_vars

\* C6: a stored monitor that has been probed has last_checked_at >= created_at
\* and, when last_healthy_at is set, last_healthy_at <= last_checked_at.
C6_TimestampOrder ==
    \A m \in MonitorIds :
        monitors[m].lc # NoTime =>
            /\ monitors[m].lc >= monitors[m].created
            /\ monitors[m].lh # NoTime => monitors[m].lh <= monitors[m].lc

\* C7: while the tick loop has been inside the probe of one monitor for a tick
\* or more, no job of another monitor is overdue (a job that became due was
\* fired without waiting for the probe to return).
C7_ProbesDoNotBlockTicker ==
    (th[TickThread].pc = "check" /\ th[TickThread].start < now) =>
        \A j \in DOMAIN jobs :
            objs[j].id # objs[th[TickThread].jid].id => jobs[j] >= now

\* C8: schedule_monitor(m) on an unregistered monitor adds exactly one job for
\* m (due one interval later) and records it in the running table, its save
\* stores m with status UNKNOWN, and it returns true after running the probe
\* once; every later firing by the tick loop re-arms the job one interval
\* ahead.  On a registered id it returns false and changes neither the running
\* table, the job list nor the store.
C8_ScheduleMonitorContract ==
    [][/\ \A t \in ControlThreads :
            LET m == th[t].m
                j == th'[t].jid
            IN /\ (th[t].pc = "sched" /\ th'[t].pc = "sched_save") =>
                     /\ ~Registered(m)
                     /\ j \notin DOMAIN jobs
                     /\ DOMAIN jobs' = (DOMAIN jobs) \cup {j}
                     /\ \A k \in DOMAIN jobs : jobs'[k] = jobs[k]
                     /\ jobs'[j] = now + th[t].local.interval
                     /\ objs'[j].id = m
                     /\ running_monitors' = [running_monitors EXCEPT ![m] = j]
               /\ (th[t].pc = "sched_save" /\ th'[t].pc = "check") =>
                     monitors'[m].status = UNKNOWN
               /\ (th[t].pc = "save_monitor" /\ th'[t].pc = "idle") =>
                     /\ th[t].runs = 1
                     /\ last' = Return(th[t], "true")
               /\ (th[t].pc = "sched" /\ th'[t].pc = "idle") =>
                     /\ Registered(m)
                     /\ last' = Return(th[t], "false")
                     /\ UNCHANGED <<running_monitors, jobs, monitors>>
       /\ (/\ th[TickThread].pc = "save_monitor"
           /\ th'[TickThread].pc # "save_monitor"
           /\ th[TickThread].jid \in DOMAIN jobs) =>
              jobs'[th[TickThread].jid] = now + objs[th[TickThread].jid].interval
      ]_vars

\* C9: stop_monitor(id) on a registered monitor removes its job from the
\* running table and from schedule's job list, its save stores the monitor with
\* status OFFLINE and it returns true with the id still unregistered;
\* stop_monitor(id) on an unregistered id returns false and leaves the running
\* table, the job list and the store unchanged.
C9_StopMonitorContract ==
    [][/\ \A t \in ControlThreads :
            /\ (th[t].pc # "stop_get" /\ th'[t].pc = "stop_get") =>
                  LET m == th'[t].m IN
                  /\ Registered(m)
                  /\ running_monitors' = [running_monitors EXCEPT ![m] = NoJob]
                  /\ DOMAIN jobs' = (DOMAIN jobs) \ {running_monitors[m]}
                  /\ \A k \in DOMAIN jobs' : jobs'[k] = jobs[k]
            /\ (th[t].pc = "stop_save" /\ th'[t].pc # "stop_save") =>
                  LET m == th[t].m IN
                  /\ monitors'[m].status = OFFLINE
                  /\ \A m2 \in MonitorIds \ {m} : monitors'[m2] = monitors[m2]
                  /\ ~Registered(m)
                  /\ UNCHANGED <<running_monitors, jobs>>
                  /\ th[t].op = "stop_monitor" => last' = Return(th[t], "true")
       /\ (nrequests' # nrequests /\ th' = th /\ last'.op = "stop_monitor") =>
              /\ ~Registered(last'.m)
              /\ last'.ret = "false"
              /\ UNCHANGED <<running_monitors, jobs, monitors>>
      ]_vars

C9_Witness ==
    /\ last.op = "stop_monitor"
    /\ last.ret = "true"
    /\ ~Registered(last.m)
    /\ monitors[last.m].status = OFFLINE
    /\ monitors[last.m].lc # NoTime
    /\ JobsOf(jobs, objs, last.m) = {}

\* C10: reschedule_monitor(m) on a registered monitor removes the old job and
\* leaves exactly one job for m in schedule's job list, the one recorded in the
\* running table, due one (new) interval later; on an unregistered monitor it
\* returns false and changes nothing.
C10_RescheduleMonitorContract ==
    [][(nrequests' # nrequests /\ th' = th /\ last'.op = "reschedule_monitor") =>
          LET m == last'.m IN
          IF Registered(m)
          THEN /\ running_monitors[m] \notin DOMAIN jobs'
               /\ running_monitors'[m] # NoJob
               /\ JobsOf(jobs', objs', m) = {running_monitors'[m]}
               /\ jobs'[running_monitors'[m]] = now + objs'[running_monitors'[m]].interval
          ELSE /\ last'.ret = "false"
               /\ UNCHANGED <<running_monitors, jobs, monitors, objs>>
      ]_vars

\* the ids of the monitor objects of a list
IdsOf(q) == {q[i].id : i \in 1..Len(q)}

\* the monitors start_all_monitors_in_space still has to schedule
ToSchedule(r) ==
    IF r.op = "start_space" /\ r.pc = "sched"
    THEN {r.m} \cup IdsOf(r.batch) ELSE {}

StopOps == {"stop_monitor", "stop_space", "update_monitor"}

\* C11: start_all_monitors_in_space(s) keeps for scheduling exactly the
\* monitors it read that are not registered at the instant of the filter; each
\* of its schedule_monitor calls leaves a monitor that is registered (by then)
\* untouched and adds exactly one job for one that is not; none of its steps
\* removes or changes a job or a running-table entry of another monitor; and
\* when it returns every stored monitor of s is registered, unless another
\* request has stopped it meanwhile.
C11_StartAllInSpace ==
    [][\A t \in ControlThreads :
          (th[t].op = "start_space" /\ th'[t] # th[t]) =>
             /\ th[t].pc = "start_all" =>
                   /\ ToSchedule(th'[t]) =
                         {m \in IdsOf(th[t].batch) : ~Registered(m)}
                   /\ Len(th[t].batch) =
                         Cardinality({m \in MonitorIds : monitors[m].stored
                                          /\ SpaceOf(m) = th[t].m})
                   /\ UNCHANGED <<running_monitors, jobs, monitors>>
             /\ th[t].pc = "sched" =>
                   LET m == th[t].m IN
                   IF Registered(m)
                   THEN /\ UNCHANGED <<running_monitors, jobs, monitors>>
                        /\ ToSchedule(th'[t]) = IdsOf(th[t].batch)
                   ELSE /\ running_monitors'[m] \notin (DOMAIN jobs) \cup {NoJob}
                        /\ DOMAIN jobs' = (DOMAIN jobs) \cup {running_monitors'[m]}
                        /\ objs'[running_monitors'[m]].id = m
             /\ th[t].pc = "save_monitor" =>
                   ToSchedule(th'[t]) = IdsOf(th[t].batch)
             /\ \A m \in MonitorIds :
                   m # th[t].m => running_monitors'[m] = running_monitors[m]
             /\ \A j \in DOMAIN jobs : j \in DOMAIN jobs' /\ jobs'[j] = jobs[j]
             /\ th'[t].pc = "idle" =>
                   \A m \in MonitorIds :
                       (monitors'[m].stored /\ monitors'[m].space = last'.m) =>
                           \/ Registered(m)' /\ Cardinality(JobsOf(jobs', objs', m)) = 1
                           \/ /\ monitors'[m].lc # NoTime
                              /\ \/ monitors'[m].status = OFFLINE
                                 \/ \E t2 \in ControlThreads \ {t} :
                                       /\ th[t2].op \in StopOps
                                       /\ th[t2].m \in {m, last'.m}
      ]_vars

C11_Witness ==
    /\ last.op = "start_space"
    /\ nrequests = 2
    /\ \A m \in MonitorIds : Registered(m) /\ SpaceOf(m) = last.m
    /\ \A t \in ControlThreads : th[t].pc = "idle"

\* the monitor ids of a list of ids
IdsOfTodo(q) == {q[i] : i \in 1..Len(q)}

\* C12: stop_all_monitors_in_space(s) works on exactly the registered monitors
\* of space s; each iteration removes that monitor's job and running-table
\* entry, stores it OFFLINE and changes no other monitor; when it returns no
\* monitor of s is registered.  stop_all_monitors() works on every registered
\* monitor; each iteration removes the job and stores the monitor OFFLINE; when
\* it returns the running table is empty and no job of a monitor is left.
C12_StopAllContract ==
    [][\A t \in ControlThreads :
          /\ (th[t].pc = "idle" /\ th'[t].pc = "stop_all") =>
                /\ IdsOfTodo(th'[t].todo) =
                      {m \in MonitorIds : Registered(m) /\ SpaceOf(m) = th'[t].m}
                /\ Len(th'[t].todo) = Cardinality(IdsOfTodo(th'[t].todo))
                /\ UNCHANGED <<running_monitors, jobs, monitors>>
          /\ (th[t].pc = "stop_all" /\ th'[t].pc = "stop_all" /\ th'[t] # th[t]) =>
                LET m == Head(th[t].todo) IN
                /\ SpaceOf(m) = th[t].m
                /\ running_monitors' = [running_monitors EXCEPT ![m] = NoJob]
                /\ DOMAIN jobs' = (DOMAIN jobs) \ {running_monitors[m]}
                /\ monitors'[m].status = OFFLINE
                /\ \A m2 \in MonitorIds \ {m} : monitors'[m2] = monitors[m2]
          /\ (th[t].pc = "stop_all" /\ th'[t].pc = "idle") =>
                /\ \A m \in MonitorIds :
                      SpaceOf(m) = th[t].m =>
                          ~Registered(m) /\ JobsOf(jobs, objs, m) = {}
                /\ UNCHANGED <<running_monitors, jobs, monitors>>
          /\ (th[t].pc = "idle" /\ th'[t].pc = "stop_everything") =>
                /\ IdsOfTodo(th'[t].todo) = {m \in MonitorIds : Registered(m)}
                /\ Len(th'[t].todo) = Cardinality(IdsOfTodo(th'[t].todo))
                /\ UNCHANGED <<running_monitors, jobs, monitors>>
          /\ (th[t].pc = "stop_everything" /\ th'[t].pc = "stop_everything" /\ th'[t] # th[t]) =>
                LET m == Head(th[t].todo) IN
                /\ DOMAIN jobs' = (DOMAIN jobs) \ {running_monitors[m]}
                /\ monitors'[m].status = OFFLINE
                /\ \A m2 \in MonitorIds \ {m} : monitors'[m2] = monitors[m2]
          /\ (th[t].pc = "stop_everything" /\ th'[t].pc = "idle") =>
                /\ \A m \in MonitorIds :
                      /\ ~Registered(m)'
                      /\ Registered(m) => monitors'[m].status = OFFLINE
                /\ DOMAIN jobs' = {}
      ]_vars

C12_Witness ==
    /\ last.op = "stop_space"
    /\ \A t \in ControlThreads : th[t].pc = "idle"
    /\ \A m \in MonitorIds :
          /\ SpaceOf(m) = last.m
          /\ ~Registered(m)
          /\ monitors[m].status = OFFLINE
          /\ monitors[m].lc # NoTime

\* C13: a call of list_running_monitors(space_id?, monitor_type?) returns
\* exactly the monitors registered at the instant of the call that match the
\* space_id when one is given and the monitor_type when one is given.
C13_ListRunningFiltered ==
    [][(nrequests' # nrequests /\ last'.op = "list_running") =>
          listing'.ids =
             {m \in MonitorIds :
                 /\ Registered(m)
                 /\ (listing'.space = NoFilter \/ SpaceOf(m) = listing'.space)
                 /\ (listing'.type = NoFilter \/ TypeOf(m) = listing'.type)}
      ]_vars

\* the rows of the store with a status of sts and a timestamp before cutoff
RowsBefore(cutoff, sts) ==
    CountRows(table, {c \in Classes : c[1] \in sts /\ c[2] < cutoff})

\* a run of data_cleanup has returned and none is under way
AfterRun == cleanup.pc = "idle" /\ cleanup.run_count > 0

\* the step in which a run of data_cleanup starts (and may already return)
ExecuteStep == cfg.enabled /\ cleanup.pc = "idle" /\ cleanup' # cleanup

S5(j, recent) ==
    /\ cfg.keep_healthy = 7
    /\ cfg.keep_unhealthy = 30
    /\ j.preview.healthy_to_delete = 1000
    /\ j.preview.unhealthy_to_delete = 1000
    /\ j.preview.retention_after_cleanup \in recent

\* the recent results of S5, with those saved meanwhile
TenRecent == 10..(10 + MaxInserts)
ThousandRecent == 1000..(1000 + MaxInserts)

\* what S5 says of a run and of the run after it, for a number of recent
\* results in the set recent
S5_Outcome(recent) ==
    /\ (ExecuteStep /\ cleanup.run_count = 0 /\ S5(cleanup', recent)) =>
           cleanup'.pc = "cleanup"
    /\ (cleanup.pc = "cleanup" /\ S5(cleanup, recent)) =>
           \A c \in Classes :
               c[2] >= Today - (IF c[1] = HEALTHY THEN 7 ELSE 30) =>
                   table'[c] >= table[c]
    /\ (cleanup.pc = "finish" /\ cleanup'.pc = "idle" /\ S5(cleanup, recent)) =>
           /\ cleanup'.ret = Success
           /\ cleanup'.healthy_deleted + cleanup'.unhealthy_deleted = 2000
           /\ CountRows(table', {c \in Classes : c[1] = HEALTHY /\ c[2] < Today - 7}) = 0
           /\ CountRows(table', {c \in Classes : c[1] # HEALTHY /\ c[2] < Today - 30}) = 0
           /\ CountRows(table', Classes) \in recent
    /\ (ExecuteStep /\ cleanup.run_count = 1 /\ S5(cleanup, recent)) =>
           /\ cleanup.ret = Success
           /\ cleanup'.preview.total_to_delete = 0
           /\ cleanup'.pc = "idle"
           /\ cleanup'.ret = Success
           /\ table' = table

C17_PreviewReadOnly ==
    [][preview' # preview =>
          /\ table' = table
          /\ results' = results
          /\ monitors' = monitors
          /\ spaces' = spaces
          /\ preview'.healthy_cutoff_date = Today - cfg.keep_healthy
          /\ preview'.unhealthy_cutoff_date = Today - cfg.keep_unhealthy
          /\ preview'.healthy_to_delete =
                RowsBefore(preview'.healthy_cutoff_date, {HEALTHY})
          /\ preview'.unhealthy_to_delete =
                RowsBefore(preview'.unhealthy_cutoff_date, {UNHEALTHY, UNKNOWN})
          /\ preview'.total_to_delete =
                preview'.healthy_to_delete + preview'.unhealthy_to_delete
          /\ preview'.total_results = RowsBefore(Today + 1, ResultStatus)
          /\ preview'.retention_after_cleanup =
                preview'.total_results - preview'.total_to_delete
      ]_vars

C17_Witness ==
    /\ preview.healthy_to_delete > 0
    /\ preview.unhealthy_to_delete > table[<<UNHEALTHY, 9>>]
    /\ table[<<UNKNOWN, 9>>] > 0
    /\ preview.retention_after_cleanup > 0

\* C18: delete_space(s) on a stored space removes the space, its monitors and
\* their results and unregisters the monitors: when it returns success none
\* of them is stored or registered, and in no state is a space gone while one
\* of its monitors or results is still stored.
C18_DeleteSpaceCascades ==
    [][/\ \A s \in SpaceIds :
             (last'.op = "delete_space" /\ last'.m = s /\ last'.ret = "success"
              /\ last' # last) =>
                 /\ ~spaces'[s].stored
                 /\ \A m \in MonitorIds :
                       monitors'[m].space = s =>
                           ~monitors'[m].stored /\ running_monitors'[m] = NoJob
       /\ \A s \in SpaceIds :
             ~spaces'[s].stored =>
                 /\ \A m \in MonitorIds :
                       ~(monitors'[m].stored /\ monitors'[m].space = s)
                 /\ \A i \in 1..Len(results') :
                       monitors'[results'[i].mid].space # s
      ]_vars

\* C19: referential integrity: create_monitor with a space_id that names no
\* stored space returns an error and stores nothing, and in every state every
\* stored monitor's space is stored and every stored result's monitor is
\* stored.
C19_ReferentialIntegrity ==
    [][/\ \A m \in MonitorIds :
             (last'.op = "create_monitor" /\ last'.m = m /\ last' # last
              /\ \E t \in ControlThreads, s \in SpaceIds, n \in Names :
                    create_monitor(t, m, s, n) /\ ~spaces[s].stored) =>
                 last'.ret = "error" /\ monitors' = monitors
       /\ \A m \in MonitorIds :
             monitors'[m].stored => spaces'[monitors'[m].space].stored
       /\ \A i \in 1..Len(results') : monitors'[results'[i].mid].stored
      ]_vars

\* C20: in every state no two stored monitors of one space have the same
\* name and no two stored spaces have the same name.
C20_NamesUnique ==
    /\ \A m1, m2 \in MonitorIds :
          (/\ m1 # m2
           /\ monitors[m1].stored
           /\ monitors[m2].stored
           /\ monitors[m1].space = monitors[m2].space) =>
              monitors[m1].name # monitors[m2].name
    /\ \A s1, s2 \in SpaceIds :
          (s1 # s2 /\ spaces[s1].stored /\ spaces[s2].stored) =>
              spaces[s1].name # spaces[s2].name

\* the store and the scheduler's running table
StoreAndTable == <<monitors, spaces, results, running_monitors, jobs>>

\* the requests that are answered with status error for a missing or unknown
\* id or name or for a name conflict
CatalogOps == {"start_monitor", "create_monitor", "update_monitor",
               "delete_monitor", "create_space", "update_space", "delete_space"}

\* C21: a control request answered with status error (unknown id or name,
\* name conflict) leaves the store and the running table as they were before
\* the request: the answering step changes nothing, an update_monitor that is
\* rejected leaves the monitor registered if it was and its record as read at
\* the start, and no step of a delete request for a row that is not stored
\* changes anything.
C21_ErrorLeavesStateUnchanged ==
    [][/\ (last' # last /\ last'.op \in CatalogOps /\ last'.ret = "error") =>
             UNCHANGED StoreAndTable
       /\ \A t \in Sequential :
             (th[t].op = "update_monitor" /\ last' # last /\ last'.ret = "error") =>
                 /\ th[t].wasRunning => running_monitors'[th[t].m] # NoJob
                 /\ [ToDomainModel(th[t].m) EXCEPT !.status = monitors'[th[t].m].status]
                       = th[t].local
       /\ \A t \in Sequential :
             \/ th[t].op = "delete_monitor" /\ ~monitors[th[t].m].stored
             \/ th[t].op = "delete_space" /\ ~spaces[th[t].m].stored
             => UNCHANGED StoreAndTable
      ]_vars

\* the daemon has finished with connection c: _handle_connection has returned,
\* or the thread pool has refused the connection
FinishedWith(c) == conns[c].pc \in {"done", "dropped"}

\* C22: every accepted connection the daemon has finished with has had at
\* most one envelope written to it; if the client was still connected it has
\* had exactly one and is closed. A request whose action is not routed is
\* answered {error, "Unknown action"} and nothing is dispatched; a request
\* that cannot be decoded or parsed, or whose handler raises, is answered
\* with an error envelope.
C22_OneEnvelopePerConnection ==
    \A c \in ConnIds :
        /\ Len(conns[c].written) <= 1
        /\ FinishedWith(c) =>
              /\ conns[c].peer => Len(conns[c].written) = 1 /\ conns[c].closed
              /\ conns[c].written # <<>> =>
                    LET e == conns[c].written[1] IN
                    /\ e.status \in {"success", "error"}
                    /\ conns[c].data = "unknown_action" =>
                          e = UnknownAction /\ ~conns[c].dispatched
                    /\ conns[c].data \in {"undecodable", "not_json", "not_object"} =>
                          e.status = "error" /\ ~conns[c].dispatched
                    /\ conns[c].data = "routed" =>
                          conns[c].dispatched
                          /\ (conns[c].response = ErrorOf("exception") => e.status = "error")

\* signal_handler has returned
Handled == daemon.handler = "done"

\* C23: once SIGINT or SIGTERM has been handled the shutdown flag is set, the
\* tick loop has stopped and takes no further step, no monitor job is
\* outstanding, no pool worker is still handling a connection and the socket
\* file and the PID file are removed; and from the moment the flag is set no
\* connection is accepted.
C23_GracefulShutdown ==
    /\ [](Handled =>
            /\ ~daemon.running
            /\ ~daemon.tick_alive
            /\ DOMAIN jobs = {}
            /\ \A m \in MonitorIds : ~Registered(m)
            /\ \A c \in ConnIds : ~InHandler(c)
            /\ ~daemon.socket_file
            /\ ~daemon.pid_file)
    /\ [][/\ Handled => th'[TickThread] = th[TickThread]
          /\ ~daemon.running =>
                \A c \in ConnIds : conns[c].pc = "none" => conns'[c].pc = "none"
         ]_vars

\* ------------------------------------------------------------- C25
\* C25: get_unhealthy_monitors(threshold_hours) returns exactly the stored
\* monitors whose last_checked_at is set, whose status is not OFFLINE and
\* whose last_healthy_at is null or earlier than now - threshold_hours.
Scans(r) == runs[r].pc = "execute" /\ runs'[r].at # NoTime

C25_UnhealthyQuery ==
    [][\A r \in Runners : Scans(r) =>
          \A m \in MonitorIds :
             m \in runs'[r].unhealthy_monitors <=>
                /\ monitors[m].stored
                /\ monitors[m].lc # NoTime
                /\ monitors[m].status # OFFLINE
                /\ \/ monitors[m].lh = NoTime
                   \/ monitors[m].lh < now - mail.threshold_hours * Hour]_vars

\* a scan that returned m1, never healthy, and left out m2, whose
\* last_healthy_at is exactly now - threshold_hours
C25_Witness ==
    /\ runs[Manual].unhealthy_monitors = {"m1"}
    /\ monitors["m1"].lh = NoTime
    /\ monitors["m2"].status = UNHEALTHY
    /\ monitors["m2"].lh = now - mail.threshold_hours * Hour

\* ------------------------------------------------------------- C24
\* C24: a run of health_alert with email configured that completes sends
\* exactly one digest to each space that has notification_emails and at least
\* one monitor returned by get_unhealthy_monitors(threshold_hours), the digest
\* lists exactly the returned monitors of that space, and no other space is
\* sent anything (only a failure of the SMTP exchange keeps a digest back).
Completed(r) == runs[r].success = Success /\ runs[r].at # NoTime
DigestsOf(n, s) == {i \in DOMAIN outbox : outbox[i].run = n /\ outbox[i].space = s}

C24_OneDigestPerSpace ==
    \A r \in Runners :
       (Completed(r) /\ mail.enabled /\ mail.manager) =>
          \A s \in SpaceIds :
             LET returned == Group(runs[r].unhealthy_monitors, s)
                 due == notification_emails(s) # {} /\ returned # {}
             IN /\ Cardinality(DigestsOf(runs[r].n, s)) = IF due THEN 1 ELSE 0
                /\ \A i \in DigestsOf(runs[r].n, s) :
                      /\ outbox[i].monitors = returned
                      /\ outbox[i].result # Refused


\* ------------------------------------------------------------- C27
\* C27: a run of health_alert changes no stored monitor, space or result and
\* keeps no record of what it has sent: of two runs that returned True after
\* scanning the same store at the same time, each hands over the digests the
\* other does, to the same spaces and with the same monitors, and a digest one
\* of them sent is sent by the other unless the SMTP exchange fails.
DigestsOfRun(n) == {outbox[i] : i \in {j \in DOMAIN outbox : outbox[j].run = n}}
SameDigest(d, e) ==
    /\ d.space = e.space
    /\ d.monitors = e.monitors
    /\ d.result = e.result \/ Failed \in {d.result, e.result}
Returned(r) == ~Running(r) /\ runs[r].ret = Success

C27_NoNotifiedState ==
    /\ [](\A a, b \in Runners :
            (Returned(a) /\ Returned(b) /\ runs[a].at = runs[b].at) =>
               \A d \in DigestsOfRun(runs[a].n) :
                  \E e \in DigestsOfRun(runs[b].n) : SameDigest(d, e))
    /\ [][(runs' # runs \/ outbox' # outbox \/ alert' # alert) =>
             UNCHANGED <<monitors, spaces, results, table>>]_vars

\* the scheduled and the manual run have returned after scanning at the same
\* time, and each sent the digest of space s1
C27_Witness ==
    /\ \A r \in Runners : Returned(r) /\ runs[r].at = now
    /\ \A n \in 1..2 : \E d \in DigestsOfRun(n) : d.space = "s1" /\ d.result = Sent
\* ------------------------------------------------------------- C26
\* C26: every monitor a health_alert digest lists is, at the time of the scan,
\* a monitor the scheduler is running, whose stored status is not HEALTHY,
\* whose latest stored result is not HEALTHY and whose last HEALTHY probe, if
\* any, is older than unhealthy_threshold_hours.
Listed(r, m) ==
    /\ m \in runs'[r].unhealthy_monitors
    /\ spaces[monitors[m].space].stored
    /\ notification_emails(monitors[m].space) # {}

C26_AlertOnlyWhenUnhealthy ==
    [][\A r \in Runners : Scans(r) =>
          \A m \in MonitorIds : Listed(r, m) =>
             /\ Registered(m)
             /\ monitors[m].status # HEALTHY
             /\ LatestResult(m).status # HEALTHY
             /\ \/ monitors[m].lh = NoTime
                \/ monitors[m].lh < now - mail.threshold_hours * Hour]_vars

\* ------------------------------------------------------------- C28
\* C28: while the email service has no username or no password, a probe that
\* ends still has its result and its monitor stored, sends no email and
\* returns normally; a run of health_alert sends no email and returns True;
\* and health_alert takes email as configured exactly when the email service
\* has its credentials.
NotConfigured == ~(mail.username /\ mail.password)
FinishesProbe(t) == th[t].pc = "save_monitor" /\ th'[t].pc # "save_monitor"
Decides(r) == runs[r].pc = "execute" /\ runs'[r].pc # "execute"

ProbeIsNoOp ==
    \A t \in Threads : (NotConfigured /\ FinishesProbe(t)) =>
       LET monitor == objs[th[t].jid] IN
       /\ \E i \in DOMAIN results' : results'[i] = th[t].res
       /\ monitors'[monitor.id].status = monitor.status
       /\ monitors'[monitor.id].lc = monitor.lc
       /\ monitors'[monitor.id].lh = monitor.lh
       /\ notified' = notified
       /\ outbox' = outbox
       /\ t \in ControlThreads => last'.ret = "true"

AlertIsNoOp ==
    \A r \in Runners : NotConfigured =>
       /\ outbox' # outbox => outbox'[Len(outbox')].result # Sent
       /\ (Running(r) /\ runs'[r].pc = "idle") => runs'[r].ret = Success

TriggersAgree ==
    \A r \in Runners : (Decides(r) /\ mail.enabled) => (Scans(r) <=> ~NotConfigured)

C28_UnconfiguredEmailIsNoOp ==
    [][ProbeIsNoOp /\ AlertIsNoOp /\ TriggersAgree]_vars

\* ------------------------------------------------------------- C29
\* C29: when the SMTP exchange fails, send_email returns False and nothing is
\* raised: the probe that called it ends with its result and its monitor
\* stored and returns normally, the monitor stays registered, a health_alert
\* run goes on and returns True; and no probe whose status equals the status
\* of the previous result sends the email again.
SmtpDown == ~mail.smtp

ProbeSurvives ==
    \A t \in Threads :
       (FinishesProbe(t) /\ SmtpDown /\ attempted' # attempted) =>
          LET monitor == objs[th[t].jid] IN
          /\ notified' = notified
          /\ \E i \in DOMAIN results' : results'[i] = th[t].res
          /\ monitors'[monitor.id].status = monitor.status
          /\ monitors'[monitor.id].lc = monitor.lc
          /\ monitors'[monitor.id].lh = monitor.lh
          /\ running_monitors' = running_monitors
          /\ DOMAIN jobs' = DOMAIN jobs
          /\ t \in ControlThreads => last'.ret = "true"
          /\ t = TickThread => th'[t].pc \in {"sleep", "pass"}

NotRetried ==
    \A t \in Threads :
       (FinishesProbe(t) /\ th[t].prev = th[t].res.status) => attempted' = attempted

DigestSurvives ==
    \A r \in Runners :
       /\ (SmtpDown /\ outbox' # outbox /\ runs'[r] # runs[r]) =>
             /\ outbox'[Len(outbox')].result = Failed
             /\ runs'[r].pc \in {"spaces", "count_run"}
       /\ (Running(r) /\ runs'[r].pc = "idle") => runs'[r].ret = Success

C29_SmtpFailureIsContained ==
    [][ProbeSurvives /\ NotRetried /\ DigestSurvives]_vars

\* a per-check email failed, a later probe of the same monitor had the same
\* status and sent nothing, and a digest failed as well
C29_Witness ==
    /\ \E i, j \in DOMAIN results :
          /\ results[i].ts \in attempted \ notified
          /\ results[j].ts > results[i].ts
          /\ results[j].mid = results[i].mid
          /\ results[j].status = results[i].status
          /\ results[j].ts \notin attempted
          /\ Registered(results[i].mid)
          /\ monitors[results[i].mid].status = results[j].status
    /\ \E k \in DOMAIN outbox : outbox[k].result = Failed
    /\ Returned(Manual)

\* ------------------------------------------------------------- C30
\* C30: whenever no run of the job is in progress, run_count is the number of
\* runs that have finished and error_count the number of them that failed;
\* at all times error_count <= run_count and success_rate of get_status,
\* (run_count - error_count) / run_count, is between 0 and 1.
Quiet == \A r \in Runners : ~Running(r)

C30_JobCounters ==
    /\ Quiet => /\ alert.run_count = alert.finished
                /\ alert.error_count = alert.failed
    /\ alert.error_count <= alert.run_count
    /\ alert.run_count > 0 =>
          /\ 0 <= alert.run_count - alert.error_count
          /\ alert.run_count - alert.error_count <= alert.run_count

\* ------------------------------------------------------------- C31
\* C31: every result of check_url, whatever the request did (answer, timeout,
\* connection error, any other exception), has failed_checks = 0 exactly when
\* its status is HEALTHY, has failed_checks equal to the number of checks
\* whose entry in details signals a failure, and has check_list =
\* [connection, status_code], then content iff check_content is set, then
\* ssl iff check_ssl is set.
SignalledChecks(r) == {c \in DOMAIN r.details : r.details[c] = Signalled}

C31_UrlResult ==
    (probe.engine = "url" /\ probe.returned) =>
        LET r == Result(probe) IN
        /\ r.failed_checks = 0 <=> r.status = HEALTHY
        /\ r.failed_checks = Cardinality(SignalledChecks(r))
        /\ r.check_list = <<"connection", "status_code">>
                            \o (IF probe.check_content THEN <<"content">> ELSE <<>>)
                            \o (IF probe.check_ssl THEN <<"ssl">> ELSE <<>>)
        /\ Len(r.check_list) = 2 + (IF probe.check_content THEN 1 ELSE 0)
                                 + (IF probe.check_ssl THEN 1 ELSE 0)

\* a request that was answered with the wrong status code and then raised
\* while the content was looked for: two checks signalled, two counted
C31_Witness ==
    /\ probe.engine = "url"
    /\ probe.returned
    /\ probe.connected
    /\ probe.raised = "Exception"
    /\ probe.failed_checks = 2
    /\ probe.check_ssl
    /\ Len(probe.check_list) = 4

\* ------------------------------------------------------------- C32
\* C32: every result of check_db has check_list = [connection, query] and
\* failed_checks in {0,1,2}; an unsupported dialect or a failed connection
\* gives 2 and UNHEALTHY; a query that failed on an open connection gives 1
\* and UNHEALTHY; the status is HEALTHY exactly when failed_checks = 0. This
\* covers a failure while the connection is closed.
C32_DbResult ==
    (probe.engine = "db" /\ probe.returned) =>
        LET r == Result(probe) IN
        /\ r.check_list = <<"connection", "query">>
        /\ r.failed_checks \in {0, 1, 2}
        /\ ~probe.connected => r.failed_checks = 2 /\ r.status = UNHEALTHY
        /\ (probe.connected /\ probe.query_failed) =>
              r.failed_checks = 1 /\ r.status = UNHEALTHY
        /\ r.status = HEALTHY <=> r.failed_checks = 0

\* ------------------------------------------------------------- C33
\* C33: no scheduler operation lets a failure out: whatever store call fails
\* inside _run_monitor, schedule_monitor, stop_monitor or a bulk operation,
\* the operation returns a value to its caller.
C33_SchedulerNeverRaises == last.ret # Raised

\* ------------------------------------------------------------- C35
\* C35: when a probe execution of a registered monitor completes, whether or
\* not one of its store writes failed, its result is stored exactly once, the
\* stored monitor has the status of that result and a last_checked_at not
\* older than the start of the execution, and every result stored before is
\* still there unchanged.
Completes(t) ==
    /\ th[t].pc \in {"save_result", "save_monitor"}
    /\ th'[t].pc \notin {"check", "prev", "save_result", "save_monitor"}

C35_ProbePersists ==
    [][\A t \in Threads :
          (Completes(t) /\ Registered(th[t].res.mid)) =>
             LET r == th[t].res IN
             /\ Cardinality({i \in DOMAIN results' : results'[i] = r}) = 1
             /\ monitors'[r.mid].status = r.status
             /\ monitors'[r.mid].lc # NoTime
             /\ monitors'[r.mid].lc >= th[t].start
             /\ \A i \in DOMAIN results : results'[i] = results[i]]_vars

\* ------------------------------------------------------------- C40
\* C40: when the store write of schedule_monitor that sets the monitor
\* UNKNOWN fails, the monitor is left neither in running_monitors nor in the
\* job list of the tick loop.
C40_ScheduleAllOrNothing ==
    [][\A t \in ControlThreads :
          (th[t].pc = "sched_save" /\ last'.ret = Raised /\ th'[t].pc = "idle") =>
             /\ running_monitors'[th[t].m] = NoJob
             /\ th[t].jid \notin DOMAIN jobs']_vars

\* ------------------------------------------------------------- C34
\* C34: the results of one monitor are stored in the order in which they
\* were produced, and from the moment an execution has read the previous
\* result until it saves its own, no other result of that monitor is saved
\* or deleted.
StoredOf(rs, m) == {i \in DOMAIN rs : rs[i].mid = m}

InProductionOrder ==
    \A i, j \in DOMAIN results :
       (i < j /\ results[i].mid = results[j].mid) => results[i].ts < results[j].ts

ReadThenSaveUndisturbed ==
    \A t \in Threads :
       (th[t].pc = "save_result" /\ th'[t] = th[t]) =>
          LET m == th[t].res.mid IN
          [i \in StoredOf(results, m) |-> results[i]]
             = [i \in StoredOf(results', m) |-> results'[i]]

C34_ResultsInOrder == [](InProductionOrder) /\ [][ReadThenSaveUndisturbed]_vars

\* ------------------------------------------------------------- C38
\* C38: from the moment delete_monitor has answered success for a monitor
\* and as long as no later request has been answered, the monitor is not
\* stored, is not in running_monitors and has no stored result.
C38_DeletedStaysDeleted ==
    (last.op = "delete_monitor" /\ last.ret = "success") =>
        /\ ~monitors[last.m].stored
        /\ ~Registered(last.m)
        /\ StoredOf(results, last.m) = {}

\* ------------------------------------------------------------- C39
\* C39: when every stop request has returned, the tick loop starts a probe
\* execution only of a job that is still scheduled: a job cancelled by a stop
\* that has returned is not run any more, also when it was found due at the
\* start of the pass in progress.
TickStarts ==
    /\ th[TickThread].pc \in {"sleep", "pass"}
    /\ th'[TickThread].pc = "check"

NoRequestInProgress == \A t \in ControlThreads : th[t].pc = "idle"

C39_StoppedIsNotProbed ==
    [][(TickStarts /\ NoRequestInProgress) =>
          th'[TickThread].jid \in DOMAIN jobs]_vars

\* ------------------------------------------------------------- C36
\* C36: the batched deletion terminates; when it has ended no result older
\* than the cutoff of its status is left (HEALTHY with the healthy cutoff,
\* UNHEALTHY and UNKNOWN with the unhealthy cutoff); a turn of the loop
\* removes rows of the status and age it looks for only; the loop goes on
\* after a full batch and leaves the status at the first batch shorter than
\* batch_size (an empty one after an exact multiple); and the deleted counts
\* reported grow by the number of rows removed.
Deleted(j) == j.healthy_deleted + j.unhealthy_deleted

Matching(j, status) ==
    Older(IF status = HEALTHY THEN Today - j.keep_healthy
          ELSE Today - j.keep_unhealthy, {status})

AllMatching(j) ==
    Matching(j, HEALTHY) \cup Matching(j, UNHEALTHY) \cup Matching(j, UNKNOWN)

BatchTurn == cleanup.pc = "cleanup" /\ cleanup' # cleanup

TurnDeletesMatchingOnly ==
    BatchTurn =>
       LET status == CleanupOrder[cleanup.si]
           found == CountRows(table, Matching(cleanup, status))
       IN /\ \A c \in Classes \ Matching(cleanup, status) : table'[c] >= table[c]
          /\ \A c \in Matching(cleanup, status) : table'[c] <= table[c]
          /\ Deleted(cleanup') - Deleted(cleanup)
                = CountRows(table, Matching(cleanup, status))
                    - CountRows(table', Matching(cleanup, status))
          /\ IF found >= BatchSize
             THEN /\ cleanup'.pc = "cleanup"
                  /\ cleanup'.si = cleanup.si
                  /\ Deleted(cleanup') = Deleted(cleanup) + BatchSize
             ELSE /\ cleanup'.pc = "finish" \/ cleanup'.si = cleanup.si + 1
                  /\ CountRows(table', Matching(cleanup, status)) = 0

C37_ConnectionReleased ==
    \A c \in ConnIds : (conns[c].pc = "recv") ~> (conns[c].pc = "done")

====
